---- MODULE Spec2Model ----
(***************************************************************************)
(* A model of the request-compilation pipeline of PromptLang: the two-tier *)
(* result cache (L1Cache, L2Cache, CacheManager), the status rules of the  *)
(* OutputValidator and the stage sequencing of PipelineOrchestrator.execute.*)
(***************************************************************************)
EXTENDS Integers, Sequences, FiniteSets, TLC

(***************************************************************************)
(* Bounds of the model.                                                    *)
(***************************************************************************)
MaxTime == 2
MaxL1Size == 2
MaxL1Ttl == 1
MaxL2Ttl == 2

\* Sample cache keys and values: three keys exceed every modelled L1 capacity
\* but the largest, two values tell a fresh value from a stale one.
Keys == {"k1", "k2", "k3"}
TierKeys == {"k1", "k2"}
Values == {"v1", "v2"}

\* Python's Optional: None is the empty tuple, a value v is <<v>>.
None == <<>>
Some(v) == <<v>>

VARIABLES
    now,          \* time.time(), in whole seconds
    max_size,     \* L1Cache.max_size
    ttl_seconds,  \* L1Cache.ttl_seconds
    l2_ttl,       \* L2Cache.ttl_seconds
    enabled,      \* L2Cache._enabled (and _redis is set)
    l1,           \* L1Cache._cache: the OrderedDict, least recently used first
    l2,           \* the remote store behind L2Cache: a set of entries
    lastOp,       \* history: what the last cache operation did
    used,         \* history: keys held by L1, by time of last access
    written,      \* history: per key, the last value set into L1 and when
    ov,           \* one call of OutputValidator.validate: its inputs and its report
    req,          \* the calls of PipelineOrchestrator.execute, by request
    call          \* one call of a component run on its own: its inputs, position and result

cacheVars == <<now, max_size, ttl_seconds, l2_ttl, enabled, l1, l2, lastOp, used, written>>
vars == <<cacheVars, ov, req, call>>

(***************************************************************************)
(* Sequence helpers.                                                       *)
(***************************************************************************)
RECURSIVE SeqFilterOut(_, _)
SeqFilterOut(s, key) ==
    IF s = <<>> THEN <<>>
    ELSE IF Head(s).key = key THEN SeqFilterOut(Tail(s), key)
    ELSE <<Head(s)>> \o SeqFilterOut(Tail(s), key)

RECURSIVE KeepKeys(_, _)
KeepKeys(s, ks) ==
    IF s = <<>> THEN <<>>
    ELSE IF Head(s) \in ks THEN <<Head(s)>> \o KeepKeys(Tail(s), ks)
    ELSE KeepKeys(Tail(s), ks)

RECURSIVE DropKey(_, _)
DropKey(s, k) ==
    IF s = <<>> THEN <<>>
    ELSE IF Head(s) = k THEN DropKey(Tail(s), k)
    ELSE <<Head(s)>> \o DropKey(Tail(s), k)

KeysOf(c) == {c[i].key : i \in 1..Len(c)}
Has(c, key) == key \in KeysOf(c)
EntryOf(c, key) == c[CHOOSE i \in 1..Len(c) : c[i].key = key]

(***************************************************************************)
(* L1Cache: an OrderedDict of key -> (value, expiry).                      *)
(***************************************************************************)
\* L1Cache.get with the expiry test written as >= : an entry is dropped at
\* the very instant its TTL ends.
L1Get_ExpiresEarly(c, key, t) ==
    IF ~Has(c, key) THEN [cache |-> c, ret |-> None]
    ELSE LET e == EntryOf(c, key) IN
         IF t >= e.expiry
         THEN [cache |-> SeqFilterOut(c, key), ret |-> None]
         ELSE [cache |-> Append(SeqFilterOut(c, key), e), ret |-> Some(e.value)]

\* L1Cache.get without the expiry test: an entry is a hit as long as it is held.
L1Get_NoExpiry(c, key, t) ==
    IF ~Has(c, key) THEN [cache |-> c, ret |-> None]
    ELSE LET e == EntryOf(c, key) IN
         [cache |-> Append(SeqFilterOut(c, key), e), ret |-> Some(e.value)]

\* L1Cache.get: a miss on an absent key; an expired entry is deleted and
\* missed; a hit moves the entry to the end.
L1Get(c, key, t) ==
    IF ~Has(c, key) THEN [cache |-> c, ret |-> None]
    ELSE LET e == EntryOf(c, key) IN
         IF t > e.expiry
         THEN [cache |-> SeqFilterOut(c, key), ret |-> None]
         ELSE [cache |-> Append(SeqFilterOut(c, key), e), ret |-> Some(e.value)]

\* L1Cache.set without move_to_end on overwrite: the entry keeps its place.
L1Set_NoMoveOnUpdate(c, key, value, t, ttl, maxsz) ==
    LET e == [key |-> key, value |-> value, expiry |-> t + ttl]
        i == CHOOSE j \in 1..Len(c) : c[j].key = key
    IN IF Has(c, key) THEN [c EXCEPT ![i] = e]
       ELSE IF Len(c) >= maxsz THEN Append(Tail(c), e)
       ELSE Append(c, e)

\* L1Cache.set that keeps the expiry of an entry it overwrites.
L1Set_KeepExpiry(c, key, value, t, ttl, maxsz) ==
    LET e == [key |-> key, value |-> value, expiry |-> t + ttl] IN
    IF Has(c, key)
    THEN Append(SeqFilterOut(c, key), [e EXCEPT !.expiry = EntryOf(c, key).expiry])
    ELSE IF Len(c) >= maxsz THEN Append(Tail(c), e)
    ELSE Append(c, e)

\* L1Cache.set: an existing key is overwritten and moved to the end; a new
\* key first pops the first item when the cache is full.
L1Set(c, key, value, t, ttl, maxsz) ==
    LET e == [key |-> key, value |-> value, expiry |-> t + ttl] IN
    IF Has(c, key) THEN Append(SeqFilterOut(c, key), e)
    ELSE IF Len(c) >= maxsz THEN Append(Tail(c), e)
    ELSE Append(c, e)

\* L1Cache.clear
L1Clear(c) == <<>>

\* L1Cache.stats: removes the expired entries, keeps the order of the rest.
RECURSIVE L1Stats(_, _)
L1Stats(c, t) ==
    IF c = <<>> THEN <<>>
    ELSE IF t > Head(c).expiry THEN L1Stats(Tail(c), t)
    ELSE <<Head(c)>> \o L1Stats(Tail(c), t)

(***************************************************************************)
(* L2Cache: a remote store reached through a client; every call may fail.  *)
(* An entry written with setex lives for ttl seconds in the remote store.  *)
(***************************************************************************)
RemoteGet(store, key, t) ==
    IF \E e \in store : e.key = key /\ t < e.expiry
    THEN Some((CHOOSE e \in store : e.key = key /\ t < e.expiry).value)
    ELSE None

RemoteSetex(store, key, ttl, value, t) ==
    {e \in store : e.key # key} \cup {[key |-> key, value |-> value, expiry |-> t + ttl]}

\* L2Cache.get: disabled -> None; a failing call is caught -> None.
L2Get(store, on, key, t, fault) ==
    IF ~on THEN [ret |-> None, raised |-> FALSE, remote |-> FALSE]
    ELSE IF fault THEN [ret |-> None, raised |-> FALSE, remote |-> TRUE]
    ELSE [ret |-> RemoteGet(store, key, t), raised |-> FALSE, remote |-> TRUE]

\* L2Cache.set without the except clause: a failing call propagates.
L2Set_Uncaught(store, on, key, value, t, ttl, fault) ==
    IF ~on THEN [store |-> store, raised |-> FALSE, remote |-> FALSE]
    ELSE IF fault THEN [store |-> store, raised |-> TRUE, remote |-> TRUE]
    ELSE [store |-> RemoteSetex(store, key, ttl, value, t), raised |-> FALSE, remote |-> TRUE]

\* L2Cache.set: disabled -> return; a failing dumps/setex is caught.
L2Set(store, on, key, value, t, ttl, fault) ==
    IF ~on THEN [store |-> store, raised |-> FALSE, remote |-> FALSE]
    ELSE IF fault THEN [store |-> store, raised |-> FALSE, remote |-> TRUE]
    ELSE [store |-> RemoteSetex(store, key, ttl, value, t), raised |-> FALSE, remote |-> TRUE]

\* L2Cache.clear: disabled -> return; a failing flushdb is caught.
L2Clear(store, on, fault) ==
    IF ~on THEN [store |-> store, raised |-> FALSE, remote |-> FALSE]
    ELSE IF fault THEN [store |-> store, raised |-> FALSE, remote |-> TRUE]
    ELSE [store |-> {}, raised |-> FALSE, remote |-> TRUE]

(***************************************************************************)
(* CacheManager                                                            *)
(***************************************************************************)
\* CacheManager.get that returns an L2 hit without promoting it into L1.
CacheManagerGet_NoPromote(c, store, on, key, t, ttl, maxsz, fault) ==
    LET g1 == L1Get(c, key, t) IN
    IF g1.ret # None
    THEN [l1 |-> g1.cache, l2 |-> store, ret |-> g1.ret, raised |-> FALSE,
          l1hit |-> TRUE, l2called |-> FALSE, l2hit |-> FALSE, promoted |-> FALSE]
    ELSE LET g2 == L2Get(store, on, key, t, fault) IN
         [l1 |-> g1.cache, l2 |-> store, ret |-> g2.ret, raised |-> g2.raised,
          l1hit |-> FALSE, l2called |-> TRUE, l2hit |-> g2.ret # None, promoted |-> FALSE]

\* CacheManager.get: L1, then L2 with promotion into L1.
CacheManagerGet(c, store, on, key, t, ttl, maxsz, fault) ==
    LET g1 == L1Get(c, key, t) IN
    IF g1.ret # None
    THEN [l1 |-> g1.cache, l2 |-> store, ret |-> g1.ret, raised |-> FALSE,
          l1hit |-> TRUE, l2called |-> FALSE, l2hit |-> FALSE, promoted |-> FALSE]
    ELSE LET g2 == L2Get(store, on, key, t, fault) IN
         IF g2.raised
         THEN [l1 |-> g1.cache, l2 |-> store, ret |-> None, raised |-> TRUE,
               l1hit |-> FALSE, l2called |-> TRUE, l2hit |-> FALSE, promoted |-> FALSE]
         ELSE IF g2.ret # None
         THEN [l1 |-> L1Set(g1.cache, key, g2.ret[1], t, ttl, maxsz), l2 |-> store,
               ret |-> g2.ret, raised |-> FALSE,
               l1hit |-> FALSE, l2called |-> TRUE, l2hit |-> TRUE, promoted |-> TRUE]
         ELSE [l1 |-> g1.cache, l2 |-> store, ret |-> None, raised |-> FALSE,
               l1hit |-> FALSE, l2called |-> TRUE, l2hit |-> FALSE, promoted |-> FALSE]

\* CacheManager.set: l1.set, then l2.set.
CacheManagerSet(c, store, on, key, value, t, ttl, ttl2, maxsz, fault) ==
    LET c1 == L1Set(c, key, value, t, ttl, maxsz)
        s2 == L2Set(store, on, key, value, t, ttl2, fault)
    IN [l1 |-> c1, l2 |-> s2.store, raised |-> s2.raised]

\* CacheManager.clear: l1.clear, then l2.clear.
CacheManagerClear(c, store, on, fault) ==
    LET s2 == L2Clear(store, on, fault)
    IN [l1 |-> L1Clear(c), l2 |-> s2.store, raised |-> s2.raised]

(***************************************************************************)
(* History of the cache operations.                                        *)
(***************************************************************************)
NoOp == [op |-> "none", key |-> None, value |-> None, ret |-> None, raised |-> FALSE,
         l1hit |-> FALSE, l2called |-> FALSE, fault |-> FALSE,
         evicted |-> {}, expired |-> FALSE]

Touch(u, key) == Append(DropKey(u, key), key)

WrittenOf(key) == CHOOSE w \in written : w.key = key
IsWritten(key) == \E w \in written : w.key = key

\* written after key was set to value at time t, and the keys in gone evicted
NoteSet(ws, key, value, t, gone) ==
    {IF w.key \in gone THEN [w EXCEPT !.evicted = TRUE] ELSE w : w \in {x \in ws : x.key # key}}
        \cup {[key |-> key, value |-> value, at |-> t, evicted |-> FALSE]}

\* No call of OutputValidator.validate, of execute or of a single component is under way.
NoValidation == [called |-> FALSE]
NoRequests == <<>>
NoCall == <<>>

(***************************************************************************)
(* Actions of the cache.                                                   *)
(***************************************************************************)
CacheInit ==
    /\ now = 0
    /\ max_size \in 1..MaxL1Size
    /\ ttl_seconds \in 1..MaxL1Ttl
    /\ l2_ttl = MaxL2Ttl
    /\ enabled \in BOOLEAN
    /\ l1 = <<>>
    /\ l2 = {}
    /\ lastOp = NoOp
    /\ used = <<>>
    /\ written = {}

\* Time passes. The history forgets the writes whose L1 TTL has elapsed.
Tick ==
    /\ now < MaxTime
    /\ now' = now + 1
    /\ lastOp' = NoOp
    /\ written' = {w \in written : now + 1 <= w.at + ttl_seconds}
    /\ UNCHANGED <<max_size, ttl_seconds, l2_ttl, enabled, l1, l2, used, ov, req, call>>

\* A caller invokes CacheManager.get(key).
Get(key, fault) ==
    LET r == CacheManagerGet(l1, l2, enabled, key, now, ttl_seconds, max_size, fault)
        promoted == r.l2called /\ r.ret # None
        gone == IF promoted THEN KeysOf(l1) \ KeysOf(r.l1) ELSE {}
    IN /\ fault => enabled
       /\ l1' = r.l1
       /\ l2' = r.l2
       /\ lastOp' = [NoOp EXCEPT !.op = "get", !.key = Some(key), !.ret = r.ret,
                        !.raised = r.raised, !.l1hit = r.l1hit, !.l2called = r.l2called,
                        !.fault = fault, !.evicted = gone,
                        !.expired = Has(l1, key) /\ ~IsWritten(key)]
       /\ used' = KeepKeys(IF r.ret # None THEN Touch(used, key) ELSE used, KeysOf(r.l1))
       /\ written' = IF promoted THEN NoteSet(written, key, r.ret[1], now, gone)
                     ELSE written
       /\ UNCHANGED <<now, max_size, ttl_seconds, l2_ttl, enabled, ov, req, call>>

\* A caller invokes CacheManager.set(key, value).
Set(key, value, fault) ==
    LET r == CacheManagerSet(l1, l2, enabled, key, value, now, ttl_seconds, l2_ttl, max_size, fault)
        gone == KeysOf(l1) \ KeysOf(r.l1)
    IN /\ fault => enabled
       /\ l1' = r.l1
       /\ l2' = r.l2
       /\ lastOp' = [NoOp EXCEPT !.op = "set", !.key = Some(key), !.value = Some(value),
                        !.raised = r.raised, !.fault = fault, !.evicted = gone]
       /\ used' = KeepKeys(Touch(used, key), KeysOf(r.l1))
       /\ written' = NoteSet(written, key, value, now, gone)
       /\ UNCHANGED <<now, max_size, ttl_seconds, l2_ttl, enabled, ov, req, call>>

\* A caller invokes CacheManager.clear().
Clear(fault) ==
    LET r == CacheManagerClear(l1, l2, enabled, fault)
    IN /\ fault => enabled
       /\ l1' = r.l1
       /\ l2' = r.l2
       /\ lastOp' = [NoOp EXCEPT !.op = "clear", !.raised = r.raised, !.fault = fault]
       /\ used' = <<>>
       /\ written' = {}
       /\ UNCHANGED <<now, max_size, ttl_seconds, l2_ttl, enabled, ov, req, call>>

\* A caller invokes CacheManager.stats(): L1Cache.stats drops expired entries.
Stats ==
    /\ l1' = L1Stats(l1, now)
    /\ lastOp' = [NoOp EXCEPT !.op = "stats"]
    /\ used' = KeepKeys(used, KeysOf(l1'))
    /\ UNCHANGED <<now, max_size, ttl_seconds, l2_ttl, enabled, l2, written, ov, req, call>>

\* The cache with the remote tier absent: L1 alone serves every request.
L1Init == CacheInit /\ enabled = FALSE /\ ov = NoValidation /\ req = NoRequests /\ call = NoCall

L1Next ==
    \/ Tick
    \/ \E key \in Keys : Get(key, FALSE)
    \/ \E key \in Keys, value \in Values : Set(key, value, FALSE)
    \/ Clear(FALSE)
    \/ Stats

SpecL1 == L1Init /\ [][L1Next]_vars

\* The cache with both tiers; the remote tier may be absent and may fail.
CacheNext ==
    \/ Tick
    \/ \E key \in TierKeys, fault \in BOOLEAN : Get(key, fault)
    \/ \E key \in TierKeys, value \in Values, fault \in BOOLEAN : Set(key, value, fault)
    \/ \E fault \in BOOLEAN : Clear(fault)
    \/ Stats

TiersInit == CacheInit /\ ov = NoValidation /\ req = NoRequests /\ call = NoCall

SpecCache == TiersInit /\ [][CacheNext]_vars

(***************************************************************************)
(* Claims about the cache.                                                 *)
(***************************************************************************)
\* L1 holds an entry for key whose TTL has not elapsed at time t.
L1Live(c, key, t) == Has(c, key) /\ t <= EntryOf(c, key).expiry

\* C6 as stated: with L2 disabled, every get(k) made before the TTL of the
\* last set(k, v) elapses returns v, whatever operations other than a set of
\* k or a clear came in between.
C6_RetrievableUntilTtl ==
    (lastOp.op = "get" /\ IsWritten(lastOp.key[1]))
        => lastOp.ret = Some(WrittenOf(lastOp.key[1]).value)

\* C6 amended: with L2 disabled, every get(k) made before the TTL of the last
\* set(k, v) elapses returns v, after any operations that neither set k again,
\* clear the cache, nor evict k for capacity.
C6_RetrievableUnlessEvicted ==
    (lastOp.op = "get" /\ IsWritten(lastOp.key[1])
        /\ ~WrittenOf(lastOp.key[1]).evicted)
        => lastOp.ret = Some(WrittenOf(lastOp.key[1]).value)

\* A get at the last instant of the TTL, with another key set in between.
C6_Witness ==
    /\ lastOp.op = "get"
    /\ IsWritten(lastOp.key[1])
    /\ ~WrittenOf(lastOp.key[1]).evicted
    /\ now = WrittenOf(lastOp.key[1]).at + ttl_seconds
    /\ Len(l1) = 2
    /\ lastOp.ret # None

\* C7: L1 never holds more than max_size entries; a set of a new key into a
\* full L1 evicts exactly the least recently used entry (recency refreshed by
\* a get hit and by a set), and any other set evicts nothing.
C7_LruEviction ==
    /\ [](Len(l1) <= max_size /\ Cardinality(KeysOf(l1)) = Len(l1))
    /\ [][lastOp'.op = "set" =>
            LET k == lastOp'.key[1] IN
            IF ~Has(l1, k) /\ Len(l1) >= max_size
            THEN /\ used # <<>>
                 /\ KeysOf(l1') = (KeysOf(l1) \ {Head(used)}) \cup {k}
                 /\ lastOp'.evicted = {Head(used)}
            ELSE /\ KeysOf(l1') = KeysOf(l1) \cup {k}
                 /\ lastOp'.evicted = {}]_vars

\* A set into a full L1 of capacity two evicted an entry.
C7_Witness ==
    /\ lastOp.op = "set"
    /\ lastOp.evicted # {}
    /\ max_size = 2
    /\ Len(l1) = 2

\* C8: CacheManager.get returns an L1 hit without calling L2; on an L1 miss it
\* calls L2; an L2 hit is written into L1 only and an immediately following
\* get is an L1 hit; when both miss it returns nothing and adds no entry.
C8_GetTiers ==
    [][lastOp'.op = "get" =>
        LET k == lastOp'.key[1]
            l2hit == enabled /\ ~lastOp'.fault /\ RemoteGet(l2, k, now) # None
        IN /\ l2' = l2
           /\ L1Live(l1, k, now) =>
                /\ lastOp'.l1hit /\ ~lastOp'.l2called
                /\ lastOp'.ret = Some(EntryOf(l1, k).value)
           /\ ~L1Live(l1, k, now) =>
                /\ ~lastOp'.l1hit /\ lastOp'.l2called
                /\ IF l2hit
                   THEN /\ lastOp'.ret = RemoteGet(l2, k, now)
                        /\ L1Live(l1', k, now')
                        /\ EntryOf(l1', k).value = lastOp'.ret[1]
                        /\ L1Get(l1', k, now').ret = lastOp'.ret
                   ELSE /\ lastOp'.ret = None
                        /\ ~Has(l1', k)
                        /\ KeysOf(l1') \subseteq KeysOf(l1)]_vars

\* A get missed L1, hit L2 and promoted the value into L1.
C8_Witness ==
    /\ lastOp.op = "get"
    /\ lastOp.l2called
    /\ lastOp.ret # None
    /\ L1Live(l1, lastOp.key[1], now)

\* C9: no cache operation raises because of L2; with the remote store absent
\* or failing, L2 get is a miss and L2 set and clear change nothing, and
\* CacheManager.set still leaves the value in L1.
C9_L2NeverRaises ==
    [][/\ ~lastOp'.raised
       /\ (lastOp'.fault \/ ~enabled) => l2' = l2
       /\ (lastOp'.op = "get" /\ (lastOp'.fault \/ ~enabled) /\ ~lastOp'.l1hit)
            => lastOp'.ret = None
       /\ lastOp'.op = "set" =>
            /\ L1Live(l1', lastOp'.key[1], now')
            /\ Some(EntryOf(l1', lastOp'.key[1]).value) = lastOp'.value]_vars

\* A CacheManager.set whose remote write failed.
C9_Witness ==
    /\ lastOp.op = "set"
    /\ lastOp.fault
    /\ enabled
    /\ ~lastOp.raised
    /\ Has(l1, lastOp.key[1])
    /\ \A e \in l2 : e.key # lastOp.key[1]

\* C10: set(k, v) followed at once by get(k) returns v; a get(k) made after
\* the TTL of the entry elapsed returns nothing and removes the entry; a set
\* that overwrites k restarts its TTL at the time of the overwrite.
C10_TtlLifecycle ==
    [][/\ lastOp'.op = "set" =>
            /\ L1Get(l1', lastOp'.key[1], now').ret = lastOp'.value
            /\ EntryOf(l1', lastOp'.key[1]).expiry = now + ttl_seconds
       /\ (lastOp'.op = "get" /\ Has(l1, lastOp'.key[1])) =>
            IF IsWritten(lastOp'.key[1])
            THEN lastOp'.ret = Some(WrittenOf(lastOp'.key[1]).value)
            ELSE lastOp'.ret = None /\ ~Has(l1', lastOp'.key[1])]_vars

\* A get found an entry whose TTL had elapsed and removed it.
C10_Witness ==
    /\ lastOp.op = "get"
    /\ lastOp.expired
    /\ lastOp.ret = None
    /\ ~Has(l1, lastOp.key[1])

(***************************************************************************)
(* OutputValidator: the status of a validation report.                     *)
(***************************************************************************)
\* Python's dict.get(key, default) on a dict modelled as a function.
DictGet(d, k, default) == IF k \in DOMAIN d THEN d[k] ELSE default

IsError(f) == DictGet(f, "severity", "") = "error"
IsWarning(f) == DictGet(f, "severity", "") = "warning"
IsSecurityError(f) == DictGet(f, "type", "") = "security" /\ IsError(f)

\* any(f.get("severity") == "error" for f in all_findings)
HasErrors(fs) == \E i \in 1..Len(fs) : IsError(fs[i])
\* any(f.get("type") == "security" and f.get("severity") == "error" for f in ...)
HasSecurityErrors(fs) == \E i \in 1..Len(fs) : IsSecurityError(fs[i])
\* len([f for f in all_findings if f.get("severity") == "error"])
CountErrors(fs) == Cardinality({i \in 1..Len(fs) : IsError(fs[i])})
\* len([f for f in all_findings if f.get("severity") == "warning"])
CountWarnings(fs) == Cardinality({i \in 1..Len(fs) : IsWarning(fs[i])})

\* The status rules with the error rule tested first.
DetermineStatus_ErrorFirst(all_findings, contract_compliant, ir) ==
    LET has_errors == HasErrors(all_findings)
        has_security_errors == HasSecurityErrors(all_findings)
        security_level == DictGet(DictGet(ir, "quality_checks", <<>>), "security_level", "low")
        validation_level ==
            DictGet(DictGet(ir, "quality_checks", <<>>), "validation_level", "progressive")
    IN IF has_errors THEN "error"
       ELSE IF has_security_errors /\ security_level = "high" THEN "blocked"
       ELSE IF ~contract_compliant /\ validation_level = "strict" THEN "blocked"
       ELSE IF all_findings # <<>> THEN "warning"
       ELSE "success"

\* OutputValidator.validate, "Determine overall status": the if/elif chain.
DetermineStatus(all_findings, contract_compliant, ir) ==
    LET has_errors == HasErrors(all_findings)
        has_security_errors == HasSecurityErrors(all_findings)
        security_level == DictGet(DictGet(ir, "quality_checks", <<>>), "security_level", "low")
        validation_level ==
            DictGet(DictGet(ir, "quality_checks", <<>>), "validation_level", "progressive")
    IN IF has_security_errors /\ security_level = "high" THEN "blocked"
       ELSE IF ~contract_compliant /\ validation_level = "strict" THEN "blocked"
       ELSE IF has_errors THEN "error"
       ELSE IF all_findings # <<>> THEN "warning"
       ELSE "success"

\* OutputValidator.validate from "Merge findings" on: the report built from
\* the results of the three checks and of the contract verification.
BuildReport(syntax_valid, syntax_findings, security_findings, quality_findings, contract_compliant, compliance_summary, ir) ==
    LET all_findings == syntax_findings \o security_findings \o quality_findings IN
    [status |-> DetermineStatus(all_findings, contract_compliant, ir),
     parallel |-> TRUE,
     findings |-> all_findings,
     contract_compliance |-> compliance_summary,
     summary |-> [total_findings |-> Len(all_findings),
                  errors |-> CountErrors(all_findings),
                  warnings |-> CountWarnings(all_findings),
                  syntax_valid |-> syntax_valid,
                  contract_compliant |-> contract_compliant]]

\* Sample results of the three checks: each list ranges over the severities
\* and categories the rules tell apart.
Finding(type, severity) == [type |-> type, severity |-> severity]
SyntaxLists == {<<>>, <<Finding("syntax", "error")>>}
SecurityLists == {<<>>, <<Finding("security", "error")>>, <<Finding("security", "warning")>>}
QualityLists == {<<>>, <<Finding("quality", "warning")>>, <<Finding("quality", "info")>>,
                 <<Finding("quality", "warning"), Finding("quality", "info")>>}

\* Sample documents: quality_checks absent, empty, or with either level set.
QualityChecksSamples ==
    {<<>>} \cup {[security_level |-> sl] : sl \in {"low", "high"}}
           \cup {[validation_level |-> vl] : vl \in {"progressive", "strict"}}
           \cup {[security_level |-> sl, validation_level |-> vl] :
                    sl \in {"low", "high"}, vl \in {"progressive", "strict"}}
StatusIrSamples == {<<>>} \cup {[quality_checks |-> q] : q \in QualityChecksSamples}

\* The three checks and the contract verification have returned.
StatusInit ==
    /\ CacheInit /\ max_size = 1 /\ ttl_seconds = 1 /\ enabled = FALSE
    /\ req = NoRequests
    /\ call = NoCall
    /\ \E sy \in SyntaxLists, se \in SecurityLists, qu \in QualityLists,
          cc \in BOOLEAN, ir \in StatusIrSamples :
            ov = [called |-> FALSE, syntax_findings |-> sy, security_findings |-> se,
                  quality_findings |-> qu, contract_compliant |-> cc, ir |-> ir]

\* OutputValidator.validate merges the findings and builds the report.
Report ==
    /\ ~ov.called
    /\ ov' = [ov EXCEPT !.called = TRUE] @@
             [report |-> BuildReport(ov.syntax_findings = <<>>, ov.syntax_findings,
                                     ov.security_findings, ov.quality_findings,
                                     ov.contract_compliant, <<>>, ov.ir)]
    /\ UNCHANGED <<cacheVars, req, call>>

StatusNext == Report

SpecStatus == StatusInit /\ [][StatusNext]_vars

\* The levels a document carries, with the defaults of an absent field.
LevelOf(ir, field, default) ==
    IF "quality_checks" \in DOMAIN ir /\ field \in DOMAIN ir.quality_checks
    THEN ir.quality_checks[field] ELSE default

\* C1: the report status follows the first matching rule: an error-severity
\* security finding under security_level high is blocked; else a contract
\* violation under validation_level strict is blocked; else any error-severity
\* finding is error; else any finding is warning; else success. An output
\* with an error finding and a strict contract violation is blocked.
C1_StatusRules ==
    ov.called =>
        LET fs == ov.syntax_findings \o ov.security_findings \o ov.quality_findings
            secErr == \E i \in 1..Len(fs) :
                        fs[i].type = "security" /\ fs[i].severity = "error"
            anyErr == \E i \in 1..Len(fs) : fs[i].severity = "error"
            rule1 == secErr /\ LevelOf(ov.ir, "security_level", "low") = "high"
            rule2 == ~ov.contract_compliant
                        /\ LevelOf(ov.ir, "validation_level", "progressive") = "strict"
            st == ov.report.status
        IN /\ st \in {"blocked", "error", "warning", "success"}
           /\ (st = "blocked") <=> (rule1 \/ rule2)
           /\ (st = "error") <=> (~rule1 /\ ~rule2 /\ anyErr)
           /\ (st = "warning") <=> (~rule1 /\ ~rule2 /\ ~anyErr /\ fs # <<>>)
           /\ (st = "success") <=> (~rule1 /\ ~rule2 /\ fs = <<>>)
           /\ (anyErr /\ rule2) => st = "blocked"

\* A report on an output with a syntax error and a strict contract violation,
\* and no security finding: blocked by the second rule alone.
C1_Witness ==
    /\ ov.called
    /\ ov.syntax_findings # <<>>
    /\ ov.security_findings = <<>>
    /\ ~ov.contract_compliant
    /\ LevelOf(ov.ir, "validation_level", "progressive") = "strict"
    /\ ov.report.status = "blocked"

(***************************************************************************)
(* Documents (IR). A dict is a function on its keys; a list is a sequence. *)
(* A value whose Python type the code tests (the entries of context.stack) *)
(* is tagged: Str(s) for a string, List(l) for a list.                     *)
(***************************************************************************)
Str(s) == [str |-> s]
List(l) == [list |-> l]
IsList(v) == "list" \in DOMAIN v

\* JSON null where the code expects a dict
Null == [null |-> TRUE]
IsNull(v) == "null" \in DOMAIN v
IsStr(v) == "str" \in DOMAIN v
IsDict(v) == ~IsNull(v) /\ ~IsStr(v) /\ ~IsList(v)

\* needle in str, on strings
Contains(str, needle) ==
    \E i \in 1..(Len(str) - Len(needle) + 1) : SubSeq(str, i, i + Len(needle) - 1) = needle

\* Python's "k in v" for a string k: a key of a dict, an element of a list, a
\* substring of a string (on None it raises TypeError: see the callers)
KeyIn(k, v) ==
    IF IsStr(v) THEN Contains(v.str, k)
    ELSE IF IsList(v) THEN \E i \in 1..Len(v.list) : v.list[i] = k
    ELSE k \in DOMAIN v

\* d with d[k] = v, as Python's d[k] = v on a copy
DictPut(d, k, v) == [x \in DOMAIN d \cup {k} |-> IF x = k THEN v ELSE d[x]]
\* dict.setdefault(k, v) on a copy
DictSetDefault(d, k, v) == IF k \in DOMAIN d THEN d ELSE DictPut(d, k, v)

RECURSIVE SumOf(_)
SumOf(f) ==
    IF DOMAIN f = {} THEN 0
    ELSE LET k == CHOOSE x \in DOMAIN f : TRUE
         IN f[k] + SumOf([x \in DOMAIN f \ {k} |-> f[x]])

\* list(dict.fromkeys(l)): the first occurrence of each element, in order
RECURSIVE Dedupe(_)
Dedupe(l) ==
    IF l = <<>> THEN <<>>
    ELSE LET init == Dedupe(SubSeq(l, 1, Len(l) - 1))
             last == l[Len(l)]
         IN IF \E i \in 1..Len(init) : init[i] = last THEN init ELSE Append(init, last)

\* A content hash: sha256 is taken to be injective, so the digest stands for
\* the text that was hashed.
Sha(x) == <<"sha256", x>>

(***************************************************************************)
(* IntentRouter.route, on texts given as sequences of lowercase words.     *)
(***************************************************************************)
INTENTS == <<"scaffold", "debug", "refactor", "explain", "devops">>

\* The patterns of each intent: <<a>> for the regex a, <<a, b>> for a.*b.
PATTERNS ==
    [scaffold |-> {<<"create", "project">>, <<"build", "from", "scratch">>, <<"scaffold">>,
                   <<"generate", "structure">>, <<"new", "application">>,
                   <<"setup", "project">>},
     debug |-> {<<"fix", "error">>, <<"why", "not", "work">>, <<"debug">>,
                <<"trace", "issue">>, <<"resolve", "problem">>, <<"error", "log">>},
     refactor |-> {<<"refactor">>, <<"improve", "code">>, <<"clean", "up">>,
                   <<"optimize", "structure">>, <<"restructure">>},
     explain |-> {<<"explain">>, <<"how", "work">>, <<"what", "do">>, <<"understand">>,
                  <<"document">>},
     devops |-> {<<"deploy">>, <<"docker">>, <<"ci/cd">>, <<"kubernetes">>,
                 <<"infrastructure">>, <<"production">>}]

UpperCase == "ABCDEFGHIJKLMNOPQRSTUVWXYZ"
LowerCase == "abcdefghijklmnopqrstuvwxyz"

\* str.lower(), on ASCII text
RECURSIVE Lower(_)
Lower(str) ==
    IF Len(str) = 0 THEN ""
    ELSE LET c == SubSeq(str, 1, 1)
             up == {i \in 1..Len(UpperCase) : SubSeq(UpperCase, i, i) = c}
         IN (IF up = {} THEN c
             ELSE LET i == CHOOSE i \in up : TRUE IN SubSeq(LowerCase, i, i))
            \o Lower(SubSeq(str, 2, Len(str)))

\* the literal lit stands in text at position i
LiteralAt(lit, text, i) ==
    i >= 1 /\ i + Len(lit) - 1 <= Len(text) /\ SubSeq(text, i, i + Len(lit) - 1) = lit

\* the pattern matches text from position i on: its literals in this order,
\* with any characters but a newline between two of them (".*")
RECURSIVE MatchesAt(_, _, _)
MatchesAt(pat, text, i) ==
    /\ LiteralAt(Head(pat), text, i)
    /\ \/ Len(pat) = 1
       \/ \E j \in (i + Len(Head(pat)))..Len(text) :
             /\ \A k \in (i + Len(Head(pat)))..(j - 1) : SubSeq(text, k, k) # "\n"
             /\ MatchesAt(Tail(pat), text, j)

\* re.search(pattern, text)
PatternMatches(pat, text) == \E i \in 1..Len(text) : MatchesAt(pat, text, i)

\* sum(1 for pattern in patterns if re.search(pattern, input_lower))
IntentScore(intent, input_lower) ==
    Cardinality({p \in PATTERNS[intent] : PatternMatches(p, input_lower)})

\* The index in INTENTS of max(scores, key=scores.get): the first intent, in
\* the order of PATTERNS, with the highest score.
FirstMax(scored, input_lower) ==
    CHOOSE i \in scored :
        \A j \in scored :
            \/ IntentScore(INTENTS[j], input_lower) < IntentScore(INTENTS[i], input_lower)
            \/ (IntentScore(INTENTS[j], input_lower) = IntentScore(INTENTS[i], input_lower)
                    /\ i <= j)

\* A router that takes any explicit intent as given.
Route_TrustExplicit(input_text, explicit_intent) ==
    IF explicit_intent # None /\ explicit_intent[1] # ""
    THEN explicit_intent[1]
    ELSE LET input_lower == Lower(input_text)
             scored == {i \in 1..Len(INTENTS) : IntentScore(INTENTS[i], input_lower) > 0}
         IN IF scored # {} THEN INTENTS[FirstMax(scored, input_lower)] ELSE "scaffold"

\* IntentRouter.route: a known explicit intent wins; else the first intent
\* with the highest positive score; else scaffold.
Route(input_text, explicit_intent) ==
    IF explicit_intent # None /\ explicit_intent[1] # ""
       /\ \E i \in 1..Len(INTENTS) : INTENTS[i] = explicit_intent[1]
    THEN explicit_intent[1]
    ELSE LET input_lower == Lower(input_text)
             scored == {i \in 1..Len(INTENTS) : IntentScore(INTENTS[i], input_lower) > 0}
         IN IF scored # {} THEN INTENTS[FirstMax(scored, input_lower)] ELSE "scaffold"

(***************************************************************************)
(* hash_ir and generate_cache_key.                                         *)
(***************************************************************************)
\* dict.get(key) with the default None
DictGetOpt(d, k) == IF k \in DOMAIN d THEN Some(d[k]) ELSE None

hash_ir(ir_data) ==
    Sha([meta |-> [intent |-> DictGetOpt(DictGet(ir_data, "meta", <<>>), "intent"),
                   schema_version |->
                        DictGetOpt(DictGet(ir_data, "meta", <<>>), "schema_version")],
         task |-> DictGet(ir_data, "task", <<>>),
         context |-> DictGet(ir_data, "context", <<>>),
         constraints |-> DictGet(ir_data, "constraints", <<>>),
         output_contract |-> DictGet(ir_data, "output_contract", <<>>)])

generate_cache_key(ir_hash, schema_version, compiler_version, target_model) ==
    Sha(<<ir_hash, schema_version, compiler_version, target_model>>)

\* execute, "Generate cache key now that we have IR"
CacheKeyOf(ir, target_model) ==
    generate_cache_key(hash_ir(ir),
                       DictGet(DictGet(ir, "meta", <<>>), "schema_version", "2.1.0"),
                       "0.1.0", target_model)

(***************************************************************************)
(* IRValidator: schema check with repair.                                  *)
(***************************************************************************)
MaxRetries == 3

REQUIRED_SECTIONS ==
    <<"meta", "task", "context", "constraints", "output_contract", "quality_checks">>

RequiredFields ==
    [meta |-> <<"intent", "schema_version", "compiler_version">>,
     task |-> <<"description">>,
     context |-> <<>>,
     constraints |-> <<"must_avoid">>,
     output_contract |-> <<"required_sections", "file_block_format">>,
     quality_checks |-> <<>>]

\* validate_ir: the schema errors of a document, one per missing required
\* section and per missing required field of a present section.
SchemaErrors(ir) ==
    {<<sec>> : sec \in {REQUIRED_SECTIONS[i] : i \in 1..Len(REQUIRED_SECTIONS)} \ DOMAIN ir}
    \cup UNION {{<<sec, RequiredFields[sec][i]>> :
                    i \in {j \in 1..Len(RequiredFields[sec]) :
                              RequiredFields[sec][j] \notin DOMAIN ir[sec]}} :
                sec \in DOMAIN RequiredFields \cap DOMAIN ir}

\* A repair pass that resets meta.intent to its default even when it is present.
AttemptRepair_Overwrite(ir_data) ==
    LET r1 == DictSetDefault(DictSetDefault(DictSetDefault(ir_data,
                    "meta", <<>>), "task", <<>>), "constraints", <<>>)
        meta == DictSetDefault(DictSetDefault(DictPut(r1["meta"],
                    "intent", "scaffold"), "schema_version", "2.1.0"),
                    "compiler_version", "0.1.0")
        task == DictSetDefault(r1["task"], "description", "")
        constraints == DictSetDefault(r1["constraints"], "must_avoid", <<>>)
        r2 == DictPut(DictPut(DictPut(r1, "meta", meta), "task", task),
                      "constraints", constraints)
        r3 == DictSetDefault(r2, "output_contract",
                             [required_sections |-> <<>>, file_block_format |-> "strict"])
    IN DictSetDefault(r3, "quality_checks", <<>>)

\* A repair pass that, on a document without meta, only adds an empty meta.
AttemptRepair_MetaFirst(ir_data) ==
    IF "meta" \notin DOMAIN ir_data THEN DictPut(ir_data, "meta", <<>>) ELSE
    LET r1 == DictSetDefault(DictSetDefault(DictSetDefault(ir_data,
                    "meta", <<>>), "task", <<>>), "constraints", <<>>)
        meta == DictSetDefault(DictSetDefault(DictSetDefault(r1["meta"],
                    "intent", "scaffold"), "schema_version", "2.1.0"),
                    "compiler_version", "0.1.0")
        task == DictSetDefault(r1["task"], "description", "")
        constraints == DictSetDefault(r1["constraints"], "must_avoid", <<>>)
        r2 == DictPut(DictPut(DictPut(r1, "meta", meta), "task", task),
                      "constraints", constraints)
        r3 == DictSetDefault(r2, "output_contract",
                             [required_sections |-> <<>>, file_block_format |-> "strict"])
    IN DictSetDefault(r3, "quality_checks", <<>>)

\* IRValidator._attempt_repair
AttemptRepair(ir_data) ==
    LET r1 == DictSetDefault(DictSetDefault(DictSetDefault(ir_data,
                    "meta", <<>>), "task", <<>>), "constraints", <<>>)
        meta == DictSetDefault(DictSetDefault(DictSetDefault(r1["meta"],
                    "intent", "scaffold"), "schema_version", "2.1.0"),
                    "compiler_version", "0.1.0")
        task == DictSetDefault(r1["task"], "description", "")
        constraints == DictSetDefault(r1["constraints"], "must_avoid", <<>>)
        r2 == DictPut(DictPut(DictPut(r1, "meta", meta), "task", task),
                      "constraints", constraints)
        r3 == DictSetDefault(r2, "output_contract",
                             [required_sections |-> <<>>, file_block_format |-> "strict"])
    IN DictSetDefault(r3, "quality_checks", <<>>)

\* A validator that allows one attempt more, and one that gives up at once.
RetriesExhausted_OneMore(attempt, max_retries) == attempt > max_retries
RetriesExhausted_AtOnce(attempt, max_retries) == TRUE

\* IRValidator.validate, the test that ends the retries
RetriesExhausted(attempt, max_retries) == attempt >= max_retries

\* IRValidator.validate that gives up at once, without a repair pass.
RECURSIVE IRValidatorValidate_NoRepair(_, _)
IRValidatorValidate_NoRepair(ir_data, attempt) ==
    LET errors == SchemaErrors(ir_data) IN
    IF errors = {} THEN [is_valid |-> TRUE, errors |-> None, ir |-> ir_data]
    ELSE [is_valid |-> FALSE, errors |-> Some(errors), ir |-> ir_data]

\* IRValidator.validate
RECURSIVE IRValidatorValidate(_, _)
IRValidatorValidate(ir_data, attempt) ==
    LET errors == SchemaErrors(ir_data) IN
    IF errors = {} THEN [is_valid |-> TRUE, errors |-> None, ir |-> ir_data]
    ELSE IF RetriesExhausted(attempt, MaxRetries)
    THEN [is_valid |-> FALSE, errors |-> Some(errors), ir |-> ir_data]
    ELSE IRValidatorValidate(AttemptRepair(ir_data), attempt + 1)

(***************************************************************************)
(* IRLinter                                                                *)
(***************************************************************************)
LintFinding(severity, rule, message) ==
    [severity |-> severity, rule |-> rule, message |-> message]

\* [f(x) for x in xs if cond(x)]
RECURSIVE SeqMapIf(_, _, _)
SeqMapIf(xs, cond, f) ==
    IF xs = <<>> THEN <<>>
    ELSE (IF cond[Head(xs)] THEN <<f[Head(xs)]>> ELSE <<>>) \o SeqMapIf(Tail(xs), cond, f)

check_required_fields(ir) ==
    LET names == {REQUIRED_SECTIONS[i] : i \in 1..Len(REQUIRED_SECTIONS)} IN
    SeqMapIf(REQUIRED_SECTIONS,
             [n \in names |-> ~KeyIn(n, ir)],
             [n \in names |-> LintFinding("error", "required_fields", <<"Missing required field", n>>)])

check_constraints_validity(ir) ==
    LET constraints == DictGet(ir, "constraints", <<>>)
        token_budget == DictGetOpt(constraints, "token_budget")
    IN (IF "must_avoid" \notin DOMAIN constraints
        THEN <<LintFinding("error", "constraints_validity",
                           "constraints.must_avoid is required")>>
        ELSE <<>>)
       \o (IF token_budget # None /\ token_budget[1] < 100
           THEN <<LintFinding("error", "constraints_validity",
                              "token_budget must be integer >= 100")>>
           ELSE <<>>)

check_output_contract_completeness(ir) ==
    LET contract == DictGet(ir, "output_contract", <<>>) IN
    (IF ~KeyIn("required_sections", contract)
     THEN <<LintFinding("error", "output_contract_completeness",
                        "output_contract.required_sections is required")>>
     ELSE <<>>)
    \o (IF ~KeyIn("file_block_format", contract)
        THEN <<LintFinding("error", "output_contract_completeness",
                           "output_contract.file_block_format is required")>>
        ELSE <<>>)

check_token_budget_reasonableness(ir) ==
    LET token_budget == DictGetOpt(DictGet(ir, "constraints", <<>>), "token_budget") IN
    IF token_budget # None /\ token_budget[1] > 100000
    THEN <<LintFinding("warning", "token_budget_reasonableness",
                       "token_budget is very large")>>
    ELSE <<>>

\* _load_rules: the methods, by name, in the order lint applies them
RULES ==
    <<"_check_required_fields", "_check_constraints_validity",
      "_check_output_contract_completeness", "_check_token_budget_reasonableness">>

\* Rules of which the last also reports a list of context.stack that holds
\* an entry twice.
RuleFindings_ReadsStack(i, ir) ==
    CASE RULES[i] = "_check_required_fields" -> check_required_fields(ir)
      [] RULES[i] = "_check_constraints_validity" -> check_constraints_validity(ir)
      [] RULES[i] = "_check_output_contract_completeness" ->
            check_output_contract_completeness(ir)
      [] RULES[i] = "_check_token_budget_reasonableness" ->
            check_token_budget_reasonableness(ir)
            \o (LET stack == DictGet(DictGet(ir, "context", <<>>), "stack", <<>>) IN
                IF \E k \in DOMAIN stack :
                      IsList(stack[k]) /\ Dedupe(stack[k].list) # stack[k].list
                THEN <<LintFinding("warning", "token_budget_reasonableness",
                                   "context.stack repeats an entry")>>
                ELSE <<>>)

\* The findings rule i returns when it does not raise.
RuleFindings(i, ir) ==
    CASE RULES[i] = "_check_required_fields" -> check_required_fields(ir)
      [] RULES[i] = "_check_constraints_validity" -> check_constraints_validity(ir)
      [] RULES[i] = "_check_output_contract_completeness" ->
            check_output_contract_completeness(ir)
      [] RULES[i] = "_check_token_budget_reasonableness" ->
            check_token_budget_reasonableness(ir)

\* Rule i raises: "field not in ir" is a TypeError on None; ir.get and
\* constraints.get are an AttributeError on anything but a dict; "k not in
\* contract" is a TypeError on None.  A token_budget, if present, is an integer.
RuleRaises(i, ir) ==
    CASE RULES[i] = "_check_required_fields" -> IsNull(ir)
      [] RULES[i] = "_check_constraints_validity" ->
            ~IsDict(ir) \/ ~IsDict(DictGet(ir, "constraints", <<>>))
      [] RULES[i] = "_check_output_contract_completeness" ->
            ~IsDict(ir) \/ IsNull(DictGet(ir, "output_contract", <<>>))
      [] RULES[i] = "_check_token_budget_reasonableness" ->
            ~IsDict(ir) \/ ~IsDict(DictGet(ir, "constraints", <<>>))

\* the except branch of lint
RuleFailed(i) == LintFinding("warning", RULES[i], "Rule check failed")

\* the body of the loop of lint: what rule i adds to the findings
RunRule(i, ir) == IF RuleRaises(i, ir) THEN <<RuleFailed(i)>> ELSE RuleFindings(i, ir)

\* A loop without the try: the first rule that raises ends it.
RECURSIVE RunRules_Abort(_, _)
RunRules_Abort(i, ir) ==
    IF i > Len(RULES) THEN <<>>
    ELSE IF RuleRaises(i, ir) THEN <<RuleFailed(i)>>
    ELSE RuleFindings(i, ir) \o RunRules_Abort(i + 1, ir)

\* the loop of lint over rules i, i+1, ...
RECURSIVE RunRules(_, _)
RunRules(i, ir) ==
    IF i > Len(RULES) THEN <<>> ELSE RunRule(i, ir) \o RunRules(i + 1, ir)

Lint_AbortOnRaise(ir_data) ==
    LET findings == RunRules_Abort(1, ir_data)
    IN [is_valid |-> \A i \in 1..Len(findings) : findings[i].severity # "error",
        findings |-> findings]

\* IRLinter.lint
Lint(ir_data) ==
    LET findings == RunRules(1, ir_data)
    IN [is_valid |-> \A i \in 1..Len(findings) : findings[i].severity # "error",
        findings |-> findings]

(***************************************************************************)
(* TokenOptimizer                                                          *)
(***************************************************************************)
\* A budget that ignores the intent.
AdaptiveBudget_Flat(base_budget, intent) == base_budget

\* int(base_budget * multiplier), the multipliers in tenths
AdaptiveBudget(base_budget, intent) ==
    LET tenths == CASE intent = "scaffold" -> 12
                    [] intent = "devops" -> 11
                    [] intent = "explain" -> 9
                    [] OTHER -> 10
    IN (base_budget * tenths) \div 10

SemanticChunking(ir) ==
    DictPut(ir, "optimization",
            DictPut(DictGet(ir, "optimization", <<>>), "semantic_chunks",
                    <<"task", "constraints", "contract", "examples", "verification">>))

Deduplication(ir) ==
    LET context == DictGet(ir, "context", <<>>)
        stack == DictGet(context, "stack", <<>>)
        deduped == [k \in DOMAIN stack |->
                        IF IsList(stack[k]) THEN List(Dedupe(stack[k].list)) ELSE stack[k]]
    IN IF DOMAIN stack # {}
       THEN DictPut(ir, "context", DictPut(context, "stack", deduped))
       ELSE ir

PriorityCompression(ir) ==
    DictPut(ir, "optimization",
            DictPut(DictGet(ir, "optimization", <<>>), "compressed_fields",
                    <<"task.description", "context.stack">>))

generate_semantic_fingerprint(ir) ==
    Sha([intent |-> DictGetOpt(DictGet(ir, "meta", <<>>), "intent"),
         task_scope |-> DictGetOpt(DictGet(ir, "task", <<>>), "scope"),
         required_sections |->
            DictGet(DictGet(ir, "output_contract", <<>>), "required_sections", <<>>)])

get_priority_weights ==
    [output_contract |-> "1.0", must_avoid |-> "1.0", security_constraints |-> "1.0",
     task_description |-> "0.8", context |-> "0.6", examples |-> "0.4"]

\* len(json.dumps(value, separators=(",", ":"))), by the type of the value
Digits(n) == IF n < 10 THEN 1 ELSE IF n < 100 THEN 2 ELSE IF n < 1000 THEN 3
             ELSE IF n < 10000 THEN 4 ELSE IF n < 100000 THEN 5 ELSE 6
StrChars(str) == Len(str) + 2
ListChars(l) ==
    2 + SumOf([i \in 1..Len(l) |-> StrChars(l[i])]) + (IF Len(l) > 0 THEN Len(l) - 1 ELSE 0)
\* a dict whose values take sizes[k] characters
DictChars(sizes) ==
    2 + SumOf([k \in DOMAIN sizes |-> Len(k) + 3 + sizes[k]])
      + (IF DOMAIN sizes = {} THEN 0 ELSE Cardinality(DOMAIN sizes) - 1)
TaggedChars(v) == IF IsList(v) THEN ListChars(v.list) ELSE StrChars(v.str)
FieldChars(name, v) ==
    CASE name \in {"must_avoid", "must_have", "required_sections", "required_files",
                   "semantic_chunks", "compressed_fields"} -> ListChars(v)
      [] name = "token_budget" -> Digits(v)
      [] name = "stack" -> DictChars([k \in DOMAIN v |-> TaggedChars(v[k])])
      [] name = "semantic_fingerprint" -> 18
      [] name = "priority_weights" -> DictChars([k \in DOMAIN v |-> Len(v[k])])
      [] OTHER -> StrChars(v)
JsonChars(ir) ==
    DictChars([sec \in DOMAIN ir |->
                DictChars([f \in DOMAIN ir[sec] |-> FieldChars(f, ir[sec][f])])])

\* TokenOptimizer._estimate_tokens
EstimateTokens(ir) == JsonChars(ir) \div 4

\* f"Estimated tokens ({estimated_tokens}) exceed budget ({adaptive_budget})"
ExceedWarning(estimated_tokens, adaptive_budget) ==
    [text |-> "Estimated tokens exceed budget",
     estimated |-> estimated_tokens, budget |-> adaptive_budget]

\* An overflow test that fires on every estimate above the budget.
ScopeTooLarge_OnExceed(estimated_tokens, adaptive_budget) ==
    estimated_tokens > adaptive_budget

\* TokenOptimizer.optimize, the test that raises "Scope too large":
\* estimated_tokens > adaptive_budget * 1.5, within the test of the warning
ScopeTooLarge(estimated_tokens, adaptive_budget) ==
    estimated_tokens > adaptive_budget /\ 2 * estimated_tokens > 3 * adaptive_budget

\* TokenOptimizer.optimize whose overflow test never fires.
TokenOptimizerOptimize_NoOverflow(ir_data, token_budget, intent) ==
    LET adaptive_budget == AdaptiveBudget(token_budget, intent)
        optimized == PriorityCompression(Deduplication(SemanticChunking(ir_data)))
        meta == DictPut(DictPut(optimized["optimization"],
                    "semantic_fingerprint", generate_semantic_fingerprint(optimized)),
                    "priority_weights", get_priority_weights)
        final == DictPut(optimized, "optimization", meta)
        estimated_tokens == EstimateTokens(final)
    IN [optimized |-> final, raised |-> FALSE,
        warnings |-> IF estimated_tokens > adaptive_budget
                     THEN <<ExceedWarning(estimated_tokens, adaptive_budget)>>
                     ELSE <<>>]

\* TokenOptimizer.optimize: the three strategies, the optimization metadata,
\* then the estimate against the adaptive budget.
TokenOptimizerOptimize(ir_data, token_budget, intent) ==
    LET adaptive_budget == AdaptiveBudget(token_budget, intent)
        optimized == PriorityCompression(Deduplication(SemanticChunking(ir_data)))
        meta == DictPut(DictPut(optimized["optimization"],
                    "semantic_fingerprint", generate_semantic_fingerprint(optimized)),
                    "priority_weights", get_priority_weights)
        final == DictPut(optimized, "optimization", meta)
        estimated_tokens == EstimateTokens(final)
    IN [optimized |-> final,
        raised |-> ScopeTooLarge(estimated_tokens, adaptive_budget),
        warnings |-> IF estimated_tokens > adaptive_budget
                     THEN <<ExceedWarning(estimated_tokens, adaptive_budget)>>
                     ELSE <<>>]

\* The caller's document after optimize: every copy is shallow, so each
\* value of the caller's document is the object the optimized document holds
\* under that key, with what the strategies wrote into it.
AfterOptimize(ir_data, optimized) == [k \in DOMAIN ir_data |-> optimized[k]]

(***************************************************************************)
(* DialectCompiler                                                         *)
(***************************************************************************)
StartsWith(str, prefix) ==
    Len(str) >= Len(prefix) /\ SubSeq(str, 1, Len(prefix)) = prefix

\* DialectCompiler.compile, the choice of the dialect (targets in lowercase)
DialectOf(target_model) ==
    IF StartsWith(target_model, "claude") THEN "claude"
    ELSE IF StartsWith(target_model, "gpt") \/ StartsWith(target_model, "openai") THEN "gpt"
    ELSE "oss"

\* sep.join(parts)
RECURSIVE JoinWith(_, _)
JoinWith(parts, sep) ==
    IF parts = <<>> THEN ""
    ELSE IF Len(parts) = 1 THEN parts[1]
    ELSE parts[1] \o sep \o JoinWith(Tail(parts), sep)

\* str.strip, str.rstrip
Whitespace == {" ", "\n", "\t"}
RECURSIVE LStrip(_)
LStrip(str) ==
    IF str # "" /\ SubSeq(str, 1, 1) \in Whitespace
    THEN LStrip(SubSeq(str, 2, Len(str))) ELSE str
RECURSIVE RStrip(_)
RStrip(str) ==
    IF str # "" /\ SubSeq(str, Len(str), Len(str)) \in Whitespace
    THEN RStrip(SubSeq(str, 1, Len(str) - 1)) ELSE str
StripStr(str) == RStrip(LStrip(str))

\* the truth value of d.get(k) for a string, for a list or dict, for a flag
TruthyStr(d, k) == k \in DOMAIN d /\ d[k] # ""
TruthyList(d, k) == k \in DOMAIN d /\ d[k] # <<>>
TruthyFlag(d, k) == k \in DOMAIN d /\ d[k] = TRUE

\* _format_contract: the three dialects differ in the bold marks and the bullet
FormatContract(contract, bold, bullet) ==
    LET sections == DictGet(contract, "required_sections", <<>>)
        files == DictGet(contract, "required_files", <<>>)
        lines ==
            (IF TruthyList(contract, "required_sections")
             THEN <<bold \o "Required sections:" \o bold>>
                    \o [i \in 1..Len(sections) |-> bullet \o sections[i]]
             ELSE <<>>)
            \o (IF TruthyList(contract, "required_files")
                THEN <<"\n" \o bold \o "Required files:" \o bold>>
                       \o [i \in 1..Len(files) |-> bullet \o files[i]]
                ELSE <<>>)
            \o (IF TruthyStr(contract, "file_block_format")
                THEN <<"\n" \o bold \o "File block format:" \o bold \o " "
                         \o contract["file_block_format"]>>
                ELSE <<>>)
    IN JoinWith(lines, "\n")

\* f"{stack.get(k, '')}" for an entry of context.stack
StackEntry(stack, k) ==
    IF k \notin DOMAIN stack THEN ""
    ELSE IF IsList(stack[k])
    THEN "[" \o JoinWith([i \in 1..Len(stack[k].list) |-> "'" \o stack[k].list[i] \o "'"],
                          ", ") \o "]"
    ELSE stack[k].str

StackLine(stack) ==
    "language=" \o StackEntry(stack, "language")
        \o ", framework=" \o StackEntry(stack, "framework")

TextBlock(kind, parts, sep) == [kind |-> kind, text |-> JoinWith(parts, sep)]
Message(kind, role, content) == [kind |-> kind, role |-> role, text |-> content]

\* ClaudeDialectCompiler.compile: the parts of each block, joined by "\n\n"
ClaudeCompile(ir) ==
    LET task == DictGet(ir, "task", <<>>)
        constraints == DictGet(ir, "constraints", <<>>)
        context == DictGet(ir, "context", <<>>)
        quality == DictGet(ir, "quality_checks", <<>>)
        sep == "\n\n"
    IN <<TextBlock("contract",
            <<"<output_contract>",
              FormatContract(DictGet(ir, "output_contract", <<>>), "", "  - "),
              "</output_contract>">>, sep),
         TextBlock("task",
            <<"<task>",
              "<description>" \o DictGet(task, "description", "") \o "</description>">>
            \o (IF TruthyStr(task, "scope")
                THEN <<"<scope>" \o task["scope"] \o "</scope>">> ELSE <<>>)
            \o <<"</task>">>, sep),
         TextBlock("constraints",
            <<"<constraints>">>
            \o (IF TruthyList(constraints, "must_have")
                THEN <<"<must_have>" \o JoinWith(constraints["must_have"], ", ")
                         \o "</must_have>">> ELSE <<>>)
            \o (IF TruthyList(constraints, "must_avoid")
                THEN <<"<must_avoid>" \o JoinWith(constraints["must_avoid"], ", ")
                         \o "</must_avoid>">> ELSE <<>>)
            \o (IF TruthyFlag(constraints, "security_preserve")
                THEN <<"<security_preserve>true</security_preserve>">> ELSE <<>>)
            \o <<"</constraints>">>, sep)>>
       \o (IF context # <<>>
           THEN <<TextBlock("context",
                    <<"<context>">>
                    \o (IF TruthyList(context, "stack")
                        THEN <<"<stack>" \o StackLine(context["stack"]) \o "</stack>">>
                        ELSE <<>>)
                    \o <<"</context>">>, sep)>>
           ELSE <<>>)
       \o (IF quality # <<>>
           THEN <<TextBlock("quality",
                    <<"<quality_requirements>">>
                    \o (IF TruthyStr(quality, "validation_level")
                        THEN <<"<validation_level>" \o quality["validation_level"]
                                 \o "</validation_level>">> ELSE <<>>)
                    \o (IF TruthyStr(quality, "security_level")
                        THEN <<"<security_level>" \o quality["security_level"]
                                 \o "</security_level>">> ELSE <<>>)
                    \o <<"</quality_requirements>">>, sep)>>
           ELSE <<>>)

\* GPTDialectCompiler.compile: the messages
GPTCompile(ir) ==
    LET task == DictGet(ir, "task", <<>>)
        constraints == DictGet(ir, "constraints", <<>>)
        context == DictGet(ir, "context", <<>>)
        constraint_lines ==
            <<"Constraints:">>
            \o (IF TruthyList(constraints, "must_have")
                THEN <<"Must have: " \o JoinWith(constraints["must_have"], ", ")>>
                ELSE <<>>)
            \o (IF TruthyList(constraints, "must_avoid")
                THEN <<"Must avoid: " \o JoinWith(constraints["must_avoid"], ", ")>>
                ELSE <<>>)
            \o (IF TruthyFlag(constraints, "security_preserve")
                THEN <<"Security preservation: required">> ELSE <<>>)
    IN <<Message("contract", "system",
                 "OUTPUT CONTRACT (MANDATORY):\n"
                    \o FormatContract(DictGet(ir, "output_contract", <<>>), "", "  - ")),
         Message("task", "user",
                 "Task: " \o DictGet(task, "description", "")
                    \o (IF TruthyStr(task, "scope") THEN "\nScope: " \o task["scope"]
                        ELSE ""))>>
       \o (IF Len(constraint_lines) > 1
           THEN <<Message("constraints", "user", JoinWith(constraint_lines, "\n"))>>
           ELSE <<>>)
       \o (IF TruthyList(context, "stack")
           THEN <<Message("context", "user", "Stack: " \o StackLine(context["stack"]))>>
           ELSE <<>>)

\* OSSDialectCompiler.compile: the parts of each block, joined by "\n"
OSSCompile(ir) ==
    LET task == DictGet(ir, "task", <<>>)
        constraints == DictGet(ir, "constraints", <<>>)
        context == DictGet(ir, "context", <<>>)
        quality == DictGet(ir, "quality_checks", <<>>)
        sep == "\n"
    IN <<TextBlock("contract",
            <<"## OUTPUT CONTRACT (MANDATORY)",
              FormatContract(DictGet(ir, "output_contract", <<>>), "**", "- "),
              "">>, sep),
         TextBlock("task",
            <<"## Task", DictGet(task, "description", "")>>
            \o (IF TruthyStr(task, "scope")
                THEN <<"\n**Scope:** " \o task["scope"]>> ELSE <<>>)
            \o <<"">>, sep),
         TextBlock("constraints",
            <<"## Constraints">>
            \o (IF TruthyList(constraints, "must_have")
                THEN <<"**Must have:** " \o JoinWith(constraints["must_have"], ", ")>>
                ELSE <<>>)
            \o (IF TruthyList(constraints, "must_avoid")
                THEN <<"**Must avoid:** " \o JoinWith(constraints["must_avoid"], ", ")>>
                ELSE <<>>)
            \o (IF TruthyFlag(constraints, "security_preserve")
                THEN <<"**Security preservation:** required">> ELSE <<>>)
            \o <<"">>, sep)>>
       \o (IF TruthyList(context, "stack")
           THEN <<TextBlock("context",
                    <<"## Context", "**Stack:** " \o StackLine(context["stack"]), "">>,
                    sep)>>
           ELSE <<>>)
       \o (IF quality # <<>>
           THEN <<TextBlock("quality",
                    <<"## Quality Requirements">>
                    \o (IF TruthyStr(quality, "validation_level")
                        THEN <<"**Validation level:** " \o quality["validation_level"]>>
                        ELSE <<>>)
                    \o (IF TruthyStr(quality, "security_level")
                        THEN <<"**Security level:** " \o quality["security_level"]>>
                        ELSE <<>>), sep)>>
           ELSE <<>>)

\* compiler.compile(ir) of the dialect: the prompt as its blocks in order
Render(dialect, ir) ==
    [dialect |-> dialect,
     blocks |-> CASE dialect = "claude" -> ClaudeCompile(ir)
                  [] dialect = "gpt" -> GPTCompile(ir)
                  [] OTHER -> OSSCompile(ir)]

\* len(json.dumps(content)) of a string: its quotes and its escapes
JsonStrLen(str) ==
    Len(str) + 2
        + Cardinality({i \in 1..Len(str) : SubSeq(str, i, i) \in {"\n", "\t", "\"", "\\"}})

\* len(json.dumps({"messages": messages}, indent=2))
MessagesLen(messages) ==
    IF messages = <<>> THEN 20
    ELSE 18 + SumOf([i \in 1..Len(messages) |->
                        45 + JsonStrLen(messages[i].role) + JsonStrLen(messages[i].text)])
            + 2 * (Len(messages) - 1) + 6

\* len of the text of a string prompt: its blocks and the separators between
BlocksLen(blocks, sep) ==
    SumOf([i \in 1..Len(blocks) |-> Len(blocks[i].text)])
        + (IF blocks = <<>> THEN 0 ELSE Len(sep) * (Len(blocks) - 1))

\* len(compiled_prompt); an injected knowledge block is followed by "\n"
PromptLen(prompt) ==
    LET sep == IF prompt.dialect = "claude" THEN "\n\n" ELSE "\n" IN
    IF prompt.dialect = "gpt" THEN MessagesLen(prompt.blocks)
    ELSE IF prompt.blocks # <<>> /\ prompt.blocks[1].kind = "knowledge"
    THEN Len(prompt.blocks[1].text) + 1 + BlocksLen(Tail(prompt.blocks), sep)
    ELSE BlocksLen(prompt.blocks, sep)

MaxKnowledgeItems == 6
MaxSnippetChars == 900

\* float(item.get("score", 0.0)), in hundredths
ScoreOf(item) == DictGet(item, "score", 0)

\* _inject_reference_knowledge: one item per URL, the best scored, in the
\* order in which the URLs first appear
RECURSIVE ByUrl(_, _)
ByUrl(items, by_url) ==
    IF items = <<>> THEN by_url
    ELSE LET item == Head(items)
             url == StripStr(DictGet(item, "url", ""))
             at == {i \in 1..Len(by_url) : StripStr(by_url[i].url) = url}
         IN IF url = "" THEN ByUrl(Tail(items), by_url)
            ELSE IF at = {} THEN ByUrl(Tail(items), Append(by_url, item))
            ELSE LET i == CHOOSE x \in at : TRUE IN
                 IF ScoreOf(item) > ScoreOf(by_url[i])
                 THEN ByUrl(Tail(items), [by_url EXCEPT ![i] = item])
                 ELSE ByUrl(Tail(items), by_url)

\* items.sort(key=score, reverse=True): stable, the higher score first
RECURSIVE InsertByScore(_, _)
InsertByScore(item, sorted) ==
    IF sorted = <<>> THEN <<item>>
    ELSE IF ScoreOf(item) > ScoreOf(Head(sorted)) THEN <<item>> \o sorted
    ELSE <<Head(sorted)>> \o InsertByScore(item, Tail(sorted))

RECURSIVE SortByScore(_, _)
SortByScore(items, sorted) ==
    IF items = <<>> THEN sorted
    ELSE SortByScore(Tail(items), InsertByScore(Head(items), sorted))

KnowledgeItems(retrieved_knowledge) ==
    LET items == SortByScore(ByUrl(retrieved_knowledge, <<>>), <<>>)
    IN SubSeq(items, 1, IF Len(items) < MaxKnowledgeItems THEN Len(items)
                        ELSE MaxKnowledgeItems)

\* make_block
RECURSIVE ChunkLines(_)
ChunkLines(chunks) ==
    IF chunks = <<>> THEN <<>>
    ELSE LET text == StripStr(DictGet(Head(chunks), "text", ""))
             shown == IF Len(text) > MaxSnippetChars
                      THEN RStrip(SubSeq(text, 1, MaxSnippetChars)) \o "..."
                      ELSE text
         IN <<"- " \o shown, "Source: " \o Head(chunks).url>> \o ChunkLines(Tail(chunks))

MakeBlock(chunks) ==
    StripStr(JoinWith(<<"REFERENCE KNOWLEDGE (retrieved from engineering docs):">>
                        \o ChunkLines(chunks), "\n")) \o "\n"

\* _apply_injection: a system message after a leading system message, or
\* the block in front of a string prompt
ApplyInjection(prompt, knowledge_block) ==
    IF prompt.dialect = "gpt"
    THEN LET messages == prompt.blocks
             insert_at == IF messages # <<>> /\ messages[1].role = "system" THEN 1 ELSE 0
         IN [prompt EXCEPT !.blocks =
                SubSeq(messages, 1, insert_at)
                    \o <<Message("knowledge", "system", knowledge_block)>>
                    \o SubSeq(messages, insert_at + 1, Len(messages))]
    ELSE [prompt EXCEPT !.blocks = <<[kind |-> "knowledge", text |-> knowledge_block]>> \o @]

\* the loop that drops the lowest scored chunk until the candidate fits
RECURSIVE FitKnowledge(_, _, _)
FitKnowledge(prompt, items, token_budget) ==
    IF items = <<>> THEN prompt
    ELSE LET candidate == ApplyInjection(prompt, MakeBlock(items)) IN
         IF PromptLen(candidate) \div 4 <= token_budget THEN candidate
         ELSE FitKnowledge(prompt, SubSeq(items, 1, Len(items) - 1), token_budget)

\* _inject_reference_knowledge; token_budget is None or Some(n)
InjectReferenceKnowledge(prompt, retrieved_knowledge, token_budget) ==
    LET items == KnowledgeItems(retrieved_knowledge) IN
    IF token_budget # None /\ token_budget[1] > 0
    THEN FitKnowledge(prompt, items, token_budget[1])
    ELSE ApplyInjection(prompt, MakeBlock(items))

\* DialectCompiler.compile: the rendering of the document in the dialect,
\* with the knowledge block injected when snippets were retrieved.
DialectCompile(ir, target_model, retrieved_knowledge, token_budget) ==
    LET compiled_prompt == Render(DialectOf(target_model), ir) IN
    IF retrieved_knowledge = <<>> THEN compiled_prompt
    ELSE InjectReferenceKnowledge(compiled_prompt, retrieved_knowledge, token_budget)

(***************************************************************************)
(* OutputValidator: parsing, the three checks, the contract.               *)
(* An output is its section names and its file blocks; the content of a    *)
(* block is the set of traits the checks look for.                         *)
(***************************************************************************)
\* OutputParser.parse: match.group(2) or "text"; the group is empty for a
\* fence without a tag and for the tag "lang", which the pattern matches
\* outside the group
Parse(output) ==
    [sections |-> [i \in 1..Len(output.sections) |-> [name |-> output.sections[i]]],
     file_blocks |-> [i \in 1..Len(output.file_blocks) |->
                        [path |-> output.file_blocks[i].path,
                         language |-> IF output.file_blocks[i].tag \in {None, Some("lang")}
                                      THEN "text"
                                      ELSE output.file_blocks[i].tag[1],
                         content |-> output.file_blocks[i].content]]]

CheckFinding(severity, type, path, message) ==
    [severity |-> severity, type |-> type, file |-> path, message |-> message]

\* the findings of the file blocks one after another
RECURSIVE PerBlock(_, _)
PerBlock(file_blocks, findingsOf) ==
    IF file_blocks = <<>> THEN <<>>
    ELSE findingsOf[Head(file_blocks)] \o PerBlock(Tail(file_blocks), findingsOf)

BlocksOf(file_blocks) == {file_blocks[i] : i \in 1..Len(file_blocks)}

\* SyntaxValidator.validate
SyntaxValidate(file_blocks) ==
    PerBlock(file_blocks,
        [b \in BlocksOf(file_blocks) |->
            IF b.language \in {"python", "json"} /\ "syntax_error" \in b.content
            THEN <<CheckFinding("error", "syntax", b.path, "syntax error")>>
            ELSE <<>>])

\* SecurityScanner.scan
SecurityScan(file_blocks) ==
    PerBlock(file_blocks,
        [b \in BlocksOf(file_blocks) |->
            (IF "secret" \in b.content
             THEN <<CheckFinding("error", "security", b.path, "CWE-798")>> ELSE <<>>)
            \o (IF "sql_injection" \in b.content
                THEN <<CheckFinding("error", "security", b.path, "CWE-89")>> ELSE <<>>)
            \o (IF b.language \in {"javascript", "typescript", "js", "ts"}
                    /\ "xss" \in b.content
                THEN <<CheckFinding("error", "security", b.path, "CWE-79")>> ELSE <<>>)])

\* QualityChecker.check
QualityCheck(file_blocks) ==
    PerBlock(file_blocks,
        [b \in BlocksOf(file_blocks) |->
            (IF b.language = "python" /\ "syntax_error" \notin b.content
                    /\ "no_docstring" \in b.content
             THEN <<CheckFinding("warning", "quality", b.path, "Missing module docstring")>>
             ELSE <<>>)
            \o (IF "todo" \in b.content
                THEN <<CheckFinding("info", "quality", b.path, "TODO/FIXME comment found")>>
                ELSE <<>>)])

\* [x for x in xs if (x in among) == present]
RECURSIVE Present(_, _, _)
Present(xs, among, present) ==
    IF xs = <<>> THEN <<>>
    ELSE (IF (Head(xs) \in among) = present THEN <<Head(xs)>> ELSE <<>>)
         \o Present(Tail(xs), among, present)

\* A verifier whose verdict ignores the missing files.
ContractVerify_FilesIgnored(parsed_output, ir) ==
    LET output_contract == DictGet(ir, "output_contract", <<>>)
        required_sections == DictGet(output_contract, "required_sections", <<>>)
        required_files == DictGet(output_contract, "required_files", <<>>)
        file_block_format == DictGet(output_contract, "file_block_format", "strict")
        section_names == {parsed_output.sections[i].name :
                            i \in 1..Len(parsed_output.sections)}
        file_paths == {parsed_output.file_blocks[i].path :
                            i \in 1..Len(parsed_output.file_blocks)}
        format_correct ==
            ~(file_block_format = "strict"
                /\ \E i \in 1..Len(parsed_output.file_blocks) :
                        parsed_output.file_blocks[i].language = "")
        sections_missing == Present(required_sections, section_names, FALSE)
        files_missing == Present(required_files, file_paths, FALSE)
    IN [required_sections_present |-> Present(required_sections, section_names, TRUE),
        required_sections_missing |-> sections_missing,
        required_files_present |-> Present(required_files, file_paths, TRUE),
        required_files_missing |-> files_missing,
        file_block_format_correct |-> format_correct,
        compliant |-> sections_missing = <<>> /\ format_correct]

\* ContractVerifier.verify
ContractVerify(parsed_output, ir) ==
    LET output_contract == DictGet(ir, "output_contract", <<>>)
        required_sections == DictGet(output_contract, "required_sections", <<>>)
        required_files == DictGet(output_contract, "required_files", <<>>)
        file_block_format == DictGet(output_contract, "file_block_format", "strict")
        section_names == {parsed_output.sections[i].name :
                            i \in 1..Len(parsed_output.sections)}
        file_paths == {parsed_output.file_blocks[i].path :
                            i \in 1..Len(parsed_output.file_blocks)}
        format_correct ==
            ~(file_block_format = "strict"
                /\ \E i \in 1..Len(parsed_output.file_blocks) :
                        parsed_output.file_blocks[i].language = "")
        sections_missing == Present(required_sections, section_names, FALSE)
        files_missing == Present(required_files, file_paths, FALSE)
    IN [required_sections_present |-> Present(required_sections, section_names, TRUE),
        required_sections_missing |-> sections_missing,
        required_files_present |-> Present(required_files, file_paths, TRUE),
        required_files_missing |-> files_missing,
        file_block_format_correct |-> format_correct,
        compliant |-> sections_missing = <<>> /\ files_missing = <<>> /\ format_correct]

\* OutputValidator.validate
OutputValidatorValidate(output, ir) ==
    LET parsed_output == Parse(output)
        syntax_findings == SyntaxValidate(parsed_output.file_blocks)
        compliance_summary == ContractVerify(parsed_output, ir)
    IN BuildReport(syntax_findings = <<>>, syntax_findings,
                   SecurityScan(parsed_output.file_blocks),
                   QualityCheck(parsed_output.file_blocks),
                   compliance_summary.compliant, compliance_summary, ir)

(***************************************************************************)
(* PipelineOrchestrator.execute                                            *)
(***************************************************************************)
Reqs == {"r1", "r2"}
RequestBefore(q, r) == q = "r1" /\ r = "r2"

\* The drafts the builder returns for the sample texts.
DraftScaffold ==
    [meta |-> [intent |-> "scaffold", schema_version |-> "2.1.0",
               compiler_version |-> "0.1.0"],
     task |-> [description |-> "Create a REST API", scope |-> "full_project"],
     context |-> [stack |-> [language |-> Str("python"),
                             tools |-> List(<<"pytest", "pytest">>)]],
     constraints |-> [must_avoid |-> <<"hardcoded secrets">>, token_budget |-> 4000],
     output_contract |-> [required_sections |-> <<"Overview", "Implementation">>,
                          required_files |-> <<"main.py">>,
                          file_block_format |-> "strict"],
     quality_checks |-> [validation_level |-> "strict", security_level |-> "high"]]

\* no task and no quality_checks (both repaired), and a token_budget below 100
DraftDebug ==
    [meta |-> [intent |-> "debug"],
     context |-> [stack |-> [language |-> Str("python")]],
     constraints |-> [must_avoid |-> <<>>, token_budget |-> 50],
     output_contract |-> [required_sections |-> <<"Overview">>,
                          file_block_format |-> "markdown"]]

\* no context: no repair pass adds it
DraftVague ==
    [meta |-> [intent |-> "scaffold", schema_version |-> "2.1.0",
               compiler_version |-> "0.1.0"],
     task |-> [description |-> "help"],
     constraints |-> [must_avoid |-> <<>>],
     output_contract |-> [required_sections |-> <<>>, file_block_format |-> "strict"],
     quality_checks |-> <<>>]

TextApi == "Create an API project"
TextFix == "fix login error"
TextVague == "help"

\* IRBuilder.build with a deterministic provider: the draft of a text
DraftOf(input_text) ==
    CASE input_text = TextApi -> DraftScaffold
      [] input_text = TextFix -> DraftDebug
      [] OTHER -> DraftVague

\* The arguments of execute: a text under a budget that fits and under one
\* that overflows, a text whose draft needs repair and whose estimate exceeds
\* the budget by less than half, and a text whose draft cannot be repaired.
Args(input_text, target_model, token_budget) ==
    [input_text |-> input_text, intent |-> None, target_model |-> target_model,
     token_budget |-> token_budget, scaffold_mode |-> "full",
     security_level |-> "high", validation_mode |-> "strict"]

ArgSamples ==
    {Args(TextApi, "oss", 4000), Args(TextApi, "oss", 100),
     Args(TextFix, "gpt-4", 150), Args(TextVague, "oss", 4000)}

\* What the output generator may return.
OutputGood ==
    [sections |-> <<"Overview", "Implementation">>,
     file_blocks |-> <<[path |-> "main.py", tag |-> Some("python"), content |-> {}]>>]
OutputBad ==
    [sections |-> <<"Overview">>,
     file_blocks |-> <<[path |-> "app.py", tag |-> None, content |-> {"secret", "todo"}]>>]
OutputSamples == {OutputGood, OutputBad}

RECURSIVE Repeat(_, _)
Repeat(str, n) == IF n = 0 THEN "" ELSE str \o Repeat(str, n - 1)

\* a chunk of 320 characters
SnippetText == Repeat("Declare each route with its response model and status code. ", 5)
                \o "Keep handlers thin."

\* What the knowledge retriever returns when it does not fail.
KnowledgeFound ==
    <<[url |-> "https://docs.example/fastapi", title |-> "FastAPI routes",
       text |-> SnippetText, score |-> 80]>>

Idle ==
    [pc |-> "idle", args |-> None, intent |-> None, ir |-> None, knowledge |-> <<>>,
     rag_enabled |-> FALSE, key |-> None, hit |-> FALSE, lint |-> None, opt |-> None,
     prompt |-> None, output |-> None, report |-> None, result |-> None,
     error |-> None, trace |-> <<>>, after |-> {}, due |-> {}, storedAt |-> None]

Finished(rq) == rq.pc \in {"done", "failed"}

\* The requests that stored a result under key whose L1 TTL has not elapsed.
Due(key) ==
    {q \in Reqs : /\ req[q].storedAt # None
                  /\ req[q].key = Some(key)
                  /\ now <= req[q].storedAt[1] + ttl_seconds}

\* execute, "if cached_result:" that is never taken.
CacheHit_Never(cached_result) == FALSE

\* execute, "if cached_result:": a result dict is never empty
CacheHit(cached_result) == cached_result # None

\* execute, the two awaits of stage 4/5, waiting for the optimizer only.
BothDone_OptimizerOnly(lint, opt) == opt # None

\* execute, "await linter_task" then "await optimizer_task"
BothDone(lint, opt) == lint # None /\ opt # None

\* An exception that execute turns into a stored result of status error.
Raise_PartialResult(rq, err) ==
    [rq EXCEPT !.pc = "done", !.error = Some(err),
               !.result = Some([status |-> "error", error |-> err]),
               !.trace = rq.trace \o <<"store", "return">>]

\* An exception leaves execute: no handler, no result, no later statement.
Raise(rq, err) ==
    [rq EXCEPT !.pc = "failed", !.error = Some(err), !.trace = Append(rq.trace, "raise")]

\* An execute that writes its security_level and validation_mode arguments
\* into the quality_checks of the document it hands to the output validator.
DocumentToValidate_ArgLevels(rq) ==
    LET quality == DictGet(rq.opt[1].optimized, "quality_checks", <<>>) IN
    DictPut(rq.opt[1].optimized, "quality_checks",
            DictPut(DictPut(quality, "security_level", rq.args[1].security_level),
                    "validation_level", rq.args[1].validation_mode))

\* execute, stage 8: the document handed to the output validator
DocumentToValidate(rq) == rq.opt[1].optimized

\* execute, "Build provenance" and "Build result"
BuildResult(r, rq, validation_report) ==
    [status |-> DictGet(validation_report, "status", "success"),
     ir_json |-> rq.ir[1],
     optimized_ir |-> rq.opt[1].optimized,
     compiled_prompt |-> rq.prompt[1],
     output |-> rq.output[1],
     validation_report |-> validation_report,
     warnings |-> rq.opt[1].warnings
                    \o (IF rq.lint = None THEN <<>> ELSE rq.lint[1].findings),
     provenance |-> [request_id |-> r,
                     token_usage |-> [estimated |-> EstimateTokens(rq.opt[1].optimized),
                                      budget |-> rq.args[1].token_budget]],
     knowledge_sources_used |-> [i \in 1..Len(rq.knowledge) |-> rq.knowledge[i].url],
     rag_enabled |-> rq.rag_enabled]

PipelineInit ==
    /\ CacheInit
    /\ max_size = MaxL1Size
    /\ ttl_seconds = MaxL1Ttl
    /\ ov = NoValidation
    /\ call = NoCall
    /\ req = [r \in Reqs |-> Idle]

\* A caller invokes execute: stages 0 to 1.5, then the call of the builder.
\* The requests are named in the order of their calls.
Start(r, a) ==
    /\ req[r].pc = "idle"
    /\ \A q \in Reqs : req[q].pc = "idle" => ~RequestBefore(q, r)
    /\ req' = [req EXCEPT ![r] =
                [@ EXCEPT !.pc = "building", !.args = Some(a),
                          !.intent = Some(Route(a.input_text, a.intent)),
                          !.after = {q \in Reqs : Finished(req[q])}]]
    /\ UNCHANGED <<cacheVars, ov, call>>

\* The builder fails: the error leaves execute.
BuildFails(r) ==
    /\ req[r].pc = "building"
    /\ req' = [req EXCEPT ![r] = Raise(@, "collaborator")]
    /\ UNCHANGED <<cacheVars, ov, call>>

\* The builder returns: knowledge retrieval, cache key, cache lookup; on a
\* miss schema validation and the start of the lint and optimizer tasks.
Built(r, rag_ok, fault) ==
    LET rq == req[r]
        draft == DraftOf(rq.args[1].input_text)
        key == CacheKeyOf(draft, rq.args[1].target_model)
        got == CacheManagerGet(l1, l2, enabled, key, now, ttl_seconds, max_size, fault)
        looked == [rq EXCEPT !.ir = Some(draft),
                             !.knowledge = IF rag_ok THEN KnowledgeFound ELSE <<>>,
                             !.rag_enabled = rag_ok,
                             !.key = Some(key), !.due = Due(key),
                             !.trace = Append(rq.trace, "lookup")]
        checked == IRValidatorValidate(draft, 0)
    IN /\ rq.pc = "building"
       /\ fault => enabled
       /\ l1' = got.l1
       /\ l2' = got.l2
       /\ req' = [req EXCEPT ![r] =
                    IF CacheHit(got.ret)
                    THEN [looked EXCEPT !.pc = "done", !.hit = TRUE, !.result = got.ret,
                                        !.trace = Append(looked.trace, "return")]
                    ELSE IF ~checked.is_valid
                    THEN Raise([looked EXCEPT !.ir = Some(checked.ir),
                                              !.trace = Append(looked.trace, "validate")],
                               "schema")
                    ELSE [looked EXCEPT !.pc = "parallel", !.ir = Some(checked.ir),
                                        !.trace = Append(looked.trace, "validate")]]
       /\ UNCHANGED <<now, max_size, ttl_seconds, l2_ttl, enabled, lastOp, used, written, ov, call>>

\* The linter task runs in its thread.
RunLinter(r) ==
    /\ req[r].pc = "parallel"
    /\ req[r].lint = None
    /\ req' = [req EXCEPT ![r] = [@ EXCEPT !.lint = Some(Lint(req[r].ir[1])),
                                           !.trace = Append(@, "lint")]]
    /\ UNCHANGED <<cacheVars, ov, call>>

\* The optimizer task runs in its thread.
RunOptimizer(r) ==
    /\ req[r].pc = "parallel"
    /\ req[r].opt = None
    /\ LET r_opt == TokenOptimizerOptimize(req[r].ir[1], req[r].args[1].token_budget,
                                           req[r].intent[1])
       IN req' = [req EXCEPT ![r] =
                    [@ EXCEPT !.opt = Some(r_opt),
                              !.ir = Some(AfterOptimize(req[r].ir[1], r_opt.optimized)),
                              !.trace = Append(@, "optimize")]]
    /\ UNCHANGED <<cacheVars, ov, call>>

\* Both tasks have been awaited: the optimizer's error leaves execute, or the
\* prompt is compiled and the output generator is called.
Join(r) ==
    LET rq == req[r] IN
    /\ rq.pc = "parallel"
    /\ BothDone(rq.lint, rq.opt)
    /\ req' = [req EXCEPT ![r] =
                IF rq.opt[1].raised THEN Raise(rq, "overflow")
                ELSE [rq EXCEPT !.pc = "generating",
                                !.prompt = Some(DialectCompile(rq.opt[1].optimized,
                                                    rq.args[1].target_model, rq.knowledge,
                                                    Some(rq.args[1].token_budget))),
                                !.trace = Append(rq.trace, "compile")]]
    /\ UNCHANGED <<cacheVars, ov, call>>

\* The output generator fails: the error leaves execute.
GenerateFails(r) ==
    /\ req[r].pc = "generating"
    /\ req' = [req EXCEPT ![r] = Raise(@, "collaborator")]
    /\ UNCHANGED <<cacheVars, ov, call>>

\* The output generator returns: the output is validated, the result is
\* built, stored and returned.
Generated(r, output, fault) ==
    LET rq == [req[r] EXCEPT !.output = Some(output)]
        report == OutputValidatorValidate(output, DocumentToValidate(rq))
        result == BuildResult(r, rq, report)
        put == CacheManagerSet(l1, l2, enabled, rq.key[1], result, now,
                               ttl_seconds, l2_ttl, max_size, fault)
    IN /\ req[r].pc = "generating"
       /\ fault => enabled
       /\ l1' = put.l1
       /\ l2' = put.l2
       /\ req' = [req EXCEPT ![r] =
                    [rq EXCEPT !.pc = "done", !.report = Some(report),
                               !.result = Some(result), !.storedAt = Some(now),
                               !.trace = rq.trace \o <<"generate", "output_validate",
                                                       "store", "return">>]]
       /\ UNCHANGED <<now, max_size, ttl_seconds, l2_ttl, enabled, lastOp, used, written, ov, call>>

Next ==
    \/ Tick
    \/ \E r \in Reqs, a \in ArgSamples : Start(r, a)
    \/ \E r \in Reqs : BuildFails(r)
    \/ \E r \in Reqs, ok \in BOOLEAN, fault \in BOOLEAN : Built(r, ok, fault)
    \/ \E r \in Reqs : RunLinter(r)
    \/ \E r \in Reqs : RunOptimizer(r)
    \/ \E r \in Reqs : Join(r)
    \/ \E r \in Reqs : GenerateFails(r)
    \/ \E r \in Reqs, o \in OutputSamples, fault \in BOOLEAN : Generated(r, o, fault)

Spec == PipelineInit /\ [][Next]_vars

(***************************************************************************)
(* Claims about execute.                                                   *)
(***************************************************************************)
IsPrefix(s, t) == Len(s) <= Len(t) /\ SubSeq(t, 1, Len(s)) = s
Occurs(x, s) == \E i \in 1..Len(s) : s[i] = x

\* C2: when the cache lookup of a request finds an entry under its key,
\* execute returns that entry right after the lookup and runs no later stage
\* and no store; a request identical to one that completed before it was
\* issued, looked up before the TTL of that entry elapsed, returns the result
\* of the first.
C2_HitShortCircuits ==
    /\ [](\A r \in Reqs :
            /\ req[r].hit =>
                /\ req[r].pc = "done"
                /\ req[r].trace = <<"lookup", "return">>
                /\ req[r].lint = None /\ req[r].opt = None /\ req[r].prompt = None
                /\ req[r].output = None /\ req[r].report = None
                /\ req[r].storedAt = None
            /\ \A q \in req[r].after \cap req[r].due :
                (req[q].args = req[r].args /\ req[q].key = req[r].key)
                    => req[r].hit /\ req[r].result = req[q].result)
    /\ [][\A r \in Reqs :
            (req[r].pc = "building" /\ req'[r].key # None) =>
                LET key == req'[r].key[1]
                    inL1 == L1Live(l1, key, now)
                    inL2 == enabled /\ RemoteGet(l2, key, now) # None
                IN /\ inL1 => (req'[r].hit /\ req'[r].result = Some(EntryOf(l1, key).value))
                   /\ (req'[r].hit /\ ~inL1) =>
                        (inL2 /\ req'[r].result = RemoteGet(l2, key, now))
                   /\ req'[r].hit => (l2' = l2 /\ req'[r].pc = "done")
                   /\ (~inL1 /\ ~inL2) => ~req'[r].hit]_vars

\* The second request, identical to the first and issued after it completed,
\* got the result the first request had built, at a later time.
C2_Witness ==
    /\ req["r2"].hit
    /\ "r1" \in req["r2"].after \cap req["r2"].due
    /\ req["r2"].args = req["r1"].args
    /\ req["r1"].storedAt = Some(0)
    /\ now > 0
    /\ req["r2"].result[1].provenance.request_id = "r1"

\* The stages of a request that missed the cache, in either order of the two
\* concurrent ones.
MissOrders ==
    {<<"lookup", "validate", "lint", "optimize", "compile", "generate",
       "output_validate", "store", "return">>,
     <<"lookup", "validate", "optimize", "lint", "compile", "generate",
       "output_validate", "store", "return">>}

\* C3: on a cache miss the stages run in the order validate, {lint,
\* optimize}, compile, generate, output-validate, store, return: lint and
\* optimize only on a valid document, compile only after both, and one store,
\* after output validation and before the return.
C3_StageOrder ==
    \A r \in Reqs :
        ~req[r].hit =>
            /\ \E full \in MissOrders :
                    IsPrefix(IF req[r].error = None THEN req[r].trace
                             ELSE SubSeq(req[r].trace, 1, Len(req[r].trace) - 1), full)
            /\ (req[r].pc = "done") <=> (req[r].trace \in MissOrders)
            /\ (req[r].lint # None \/ req[r].opt # None) => SchemaErrors(req[r].ir[1]) = {}
            /\ req[r].prompt # None => (req[r].lint # None /\ req[r].opt # None)
            /\ req[r].output # None => req[r].prompt # None
            /\ req[r].report # None => req[r].output # None
            /\ req[r].storedAt # None <=> req[r].pc = "done"
            /\ req[r].result # None => req[r].report # None

\* A request completed on a miss, its optimizer having finished before its
\* linter, and its result is in L1.
C3_Witness ==
    \E r \in Reqs :
        /\ req[r].pc = "done"
        /\ ~req[r].hit
        /\ SubSeq(req[r].trace, 3, 5) = <<"optimize", "lint", "compile">>
        /\ Has(l1, req[r].key[1])
        /\ EntryOf(l1, req[r].key[1]).value = req[r].result[1]

\* C4: a request that ends with a schema error or an optimizer overflow
\* returns no result and stores nothing; while no other request has stored a
\* result under its key, neither tier holds an entry for the key and every
\* later lookup of the key misses.
C4_NoPartialResult ==
    \A r \in Reqs :
        req[r].error \in {Some("schema"), Some("overflow")} =>
            /\ req[r].pc = "failed"
            /\ req[r].result = None
            /\ ~Occurs("store", req[r].trace)
            /\ req[r].storedAt = None
            /\ (\A p \in Reqs : req[p].key = req[r].key => req[p].storedAt = None) =>
                /\ ~Has(l1, req[r].key[1])
                /\ \A e \in l2 : e.key # req[r].key[1]
                /\ \A q \in Reqs : req[q].key = req[r].key => ~req[q].hit

\* The first request overflowed; the same request, made again after that,
\* found nothing in the cache and overflowed too.
C4_Witness ==
    /\ req["r1"].error = Some("overflow")
    /\ req["r2"].args = req["r1"].args
    /\ "r1" \in req["r2"].after
    /\ req["r2"].error = Some("overflow")
    /\ ~req["r2"].hit
    /\ l1 = <<>>

\* C5: of the stages of the core only a document still invalid after repair
\* and an estimate above one and a half times the adaptive budget abort
\* execute, and they always do; a request that is not aborted returns a
\* complete result whose warnings are the optimizer's warnings followed by
\* all lint findings, error-severity ones included.
C5_OnlyTwoAborts ==
    \A r \in Reqs :
        LET rq == req[r]
            overflow ==
                2 * EstimateTokens(rq.opt[1].optimized)
                    > 3 * AdaptiveBudget(rq.args[1].token_budget, rq.intent[1])
        IN /\ rq.error # None =>
                /\ rq.error[1] \in {"schema", "overflow", "collaborator"}
                /\ rq.error[1] = "schema" =>
                        (SchemaErrors(rq.ir[1]) # {} /\ AttemptRepair(rq.ir[1]) = rq.ir[1])
                /\ rq.error[1] = "overflow" => overflow
           /\ (rq.prompt # None) => (~overflow /\ SchemaErrors(rq.ir[1]) = {})
           /\ (rq.pc = "done" /\ ~rq.hit) =>
                /\ rq.result[1].warnings = rq.opt[1].warnings \o Lint(rq.ir[1]).findings
                /\ \A i \in 1..Len(Lint(rq.ir[1]).findings) :
                        Occurs(Lint(rq.ir[1]).findings[i], rq.result[1].warnings)
                /\ rq.result[1].status \in {"blocked", "error", "warning", "success"}
                /\ rq.result[1].output = rq.output[1]
                /\ rq.result[1].validation_report = rq.report[1]

\* A request whose linter reported an error and whose optimizer warned
\* completed with both in its warnings.
C5_Witness ==
    \E r \in Reqs :
        /\ req[r].pc = "done"
        /\ ~req[r].hit
        /\ ~req[r].lint[1].is_valid
        /\ req[r].opt[1].warnings # <<>>
        /\ Len(req[r].result[1].warnings) = 2
        /\ req[r].result[1].warnings[2].severity = "error"

(***************************************************************************)
(* IRValidator.validate on its own: a document and a max_retries are       *)
(* drawn, and each step is one activation of validate (the schema check,   *)
(* then a return, or a repair pass and the recursive call).                *)
(***************************************************************************)
MaxRetriesBound == 3

\* What a section of a sample document holds when the section is present.
SectionSamples ==
    [meta |-> {<<>>, [intent |-> "debug"],
               [intent |-> "explain", schema_version |-> "2.1.0",
                compiler_version |-> "0.1.0"]},
     task |-> {<<>>, [description |-> "Create a REST API", scope |-> "full_project"]},
     context |-> {[stack |-> [language |-> Str("python")]]},
     constraints |-> {<<>>, [must_avoid |-> <<"hardcoded secrets">>, token_budget |-> 4000]},
     output_contract |-> {[required_sections |-> <<"Overview">>],
                          [required_sections |-> <<"Overview">>,
                           file_block_format |-> "markdown"]},
     quality_checks |-> {[validation_level |-> "strict"]}]

\* The documents over some sections: each section absent or one of its samples.
RECURSIVE DocsOver(_)
DocsOver(secs) ==
    IF secs = <<>> THEN {<<>>}
    ELSE LET rest == DocsOver(Tail(secs)) IN
         rest \cup {DictPut(d, Head(secs), v) : d \in rest, v \in SectionSamples[Head(secs)]}

DocSamples == DocsOver(REQUIRED_SECTIONS)

ValidateCall(ir_data, max_retries) ==
    [pc |-> "validate", input |-> ir_data, ir_data |-> ir_data, attempt |-> 0,
     max_retries |-> max_retries, checks |-> 0, repairs |-> 0,
     first_errors |-> None, result |-> None]

ValidateInit ==
    /\ CacheInit /\ max_size = 1 /\ ttl_seconds = 1 /\ enabled = FALSE
    /\ ov = NoValidation
    /\ req = NoRequests
    /\ \E d \in DocSamples, m \in 0..MaxRetriesBound : call = ValidateCall(d, m)

\* One activation of IRValidator.validate(ir_data, attempt).
Validate ==
    /\ call.pc = "validate"
    /\ LET errors == SchemaErrors(call.ir_data)
           seen == [call EXCEPT !.checks = @ + 1,
                                !.first_errors = IF call.attempt = 0 THEN Some(errors) ELSE @]
       IN call' =
            IF errors = {}
            THEN [seen EXCEPT !.pc = "returned",
                              !.result = Some([is_valid |-> TRUE, errors |-> None,
                                               ir |-> call.ir_data])]
            ELSE IF RetriesExhausted(call.attempt, call.max_retries)
            THEN [seen EXCEPT !.pc = "returned",
                              !.result = Some([is_valid |-> FALSE, errors |-> Some(errors),
                                               ir |-> call.ir_data])]
            ELSE [seen EXCEPT !.ir_data = AttemptRepair(call.ir_data),
                              !.repairs = @ + 1,
                              !.attempt = @ + 1]
    /\ UNCHANGED <<cacheVars, ov, req>>

ValidateNext == Validate

SpecValidate == ValidateInit /\ [][ValidateNext]_vars

\* validate runs to its end once called: no activation waits on anything.
SpecValidateLive == SpecValidate /\ WF_vars(Validate)

ValidateReturned == call.pc = "returned"

(***************************************************************************)
(* C11: for every document and every max_retries >= 0, validate makes at   *)
(* most max_retries + 1 schema checks and at most max_retries repair       *)
(* passes and then returns, either (true, no errors, document) or (false,  *)
(* errors, document); on the empty document, which stays invalid, it makes *)
(* exactly max_retries + 1 schema checks.                                  *)
(***************************************************************************)
C11_Bounded ==
    /\ call.checks <= call.max_retries + 1
    /\ call.repairs <= call.max_retries
    /\ ValidateReturned =>
         LET res == call.result[1] IN
         /\ res.ir = call.ir_data
         /\ res.is_valid => res.errors = None /\ SchemaErrors(res.ir) = {}
         /\ ~res.is_valid => res.errors # None /\ res.errors[1] # {}
         /\ (call.input = <<>> /\ ~res.is_valid) => call.checks = call.max_retries + 1

RepairedSections == {"meta", "task", "constraints"}

DefaultFields ==
    [meta |-> [intent |-> "scaffold", schema_version |-> "2.1.0",
               compiler_version |-> "0.1.0"],
     task |-> [description |-> ""],
     constraints |-> [must_avoid |-> <<>>],
     output_contract |-> [required_sections |-> <<>>, file_block_format |-> "strict"],
     quality_checks |-> <<>>]

\* The fields of before are kept by after, with their values.
FieldsKept(before, after) ==
    \A sec \in DOMAIN before :
        /\ sec \in DOMAIN after
        /\ IF sec \in RepairedSections
           THEN \A f \in DOMAIN before[sec] :
                    f \in DOMAIN after[sec] /\ after[sec][f] = before[sec][f]
           ELSE after[sec] = before[sec]

\* What after holds beyond before is a default.
OnlyDefaultsAdded(before, after) ==
    \A sec \in DOMAIN after :
        /\ sec \notin DOMAIN before =>
              sec \in DOMAIN DefaultFields /\ after[sec] = DefaultFields[sec]
        /\ sec \in DOMAIN before /\ sec \in RepairedSections =>
              \A f \in DOMAIN after[sec] \ DOMAIN before[sec] :
                  f \in DOMAIN DefaultFields[sec] /\ after[sec][f] = DefaultFields[sec][f]

RepairPassed == call'.repairs = call.repairs + 1

C12_RepairOnlyAdds ==
    [][RepairPassed => /\ FieldsKept(call.ir_data, call'.ir_data)
                       /\ OnlyDefaultsAdded(call.ir_data, call'.ir_data)
                       /\ call'.ir_data = AttemptRepair(call.ir_data)]_vars

\* A pass has kept meta.intent and the contract as they were and added a task.
C12_Witness ==
    /\ call.repairs = 1
    /\ "meta" \in DOMAIN call.input /\ "intent" \in DOMAIN call.input.meta
    /\ call.input.meta.intent = "debug"
    /\ "task" \notin DOMAIN call.input
    /\ "output_contract" \in DOMAIN call.input
    /\ call.ir_data.meta.intent = "debug"
    /\ call.ir_data.meta.schema_version = "2.1.0"
    /\ call.ir_data.task = [description |-> ""]
    /\ call.ir_data.output_contract = call.input.output_contract

(***************************************************************************)
(* C13, as first stated: a failure carries the errors of the schema check  *)
(* of the unrepaired input document, the check made at attempt 0.          *)
(***************************************************************************)
ValidateFailed == ValidateReturned /\ ~call.result[1].is_valid

C13_OriginalErrors ==
    ValidateFailed => call.result[1].errors = call.first_errors

(***************************************************************************)
(* C13: when the document is still invalid at an attempt >= max_retries,   *)
(* validate returns failure with the errors of that last schema check,     *)
(* the check of the document as repaired (of the input itself only when    *)
(* max_retries is 0), together with the repaired document, and it makes no *)
(* further repair pass: max_retries passes were made.                      *)
(***************************************************************************)
C13_LastErrors ==
    ValidateFailed =>
        LET last == IF call.max_retries = 0 THEN call.input
                    ELSE AttemptRepair(call.input)
        IN /\ call.attempt >= call.max_retries
           /\ call.result[1].errors = Some(SchemaErrors(last))
           /\ call.result[1].ir = last
           /\ call.repairs = call.max_retries

\* A failure whose errors are not those of the input: the input lacked a
\* task and a context, the document returned lacks only the context.
C13_Witness ==
    /\ ValidateFailed
    /\ call.max_retries = MaxRetries
    /\ call.repairs = MaxRetries
    /\ <<"task">> \in call.first_errors[1]
    /\ call.result[1].errors = Some({<<"context">>})

(***************************************************************************)
(* TokenOptimizer.optimize on its own: a document, a token budget and an   *)
(* intent are drawn, and the one step is the call.                         *)
(***************************************************************************)
MaxBudget == 120

BudgetSamples == 1..MaxBudget \cup {4000}
IntentSamples == {INTENTS[i] : i \in 1..Len(INTENTS)} \cup {"unknown"}
\* the estimates of the optimized documents: 83, 90, 134 and 203 tokens
OptimizeDocs == {<<>>, [task |-> [description |-> ""]], DraftDebug, DraftScaffold}

OptimizeInit ==
    /\ CacheInit /\ max_size = 1 /\ ttl_seconds = 1 /\ enabled = FALSE
    /\ ov = NoValidation
    /\ req = NoRequests
    /\ \E d \in OptimizeDocs, b \in BudgetSamples, i \in IntentSamples :
          call = [pc |-> "optimize", ir_data |-> d, token_budget |-> b, intent |-> i,
                  adaptive_budget |-> None, estimated_tokens |-> None,
                  result |-> None, error |-> None]

\* TokenOptimizer.optimize(ir_data, token_budget, intent): it returns the
\* optimized document and the warnings, or raises.
Optimize ==
    /\ call.pc = "optimize"
    /\ LET r == TokenOptimizerOptimize(call.ir_data, call.token_budget, call.intent)
           done == [call EXCEPT
                      !.adaptive_budget = Some(AdaptiveBudget(call.token_budget, call.intent)),
                      !.estimated_tokens = Some(EstimateTokens(r.optimized))]
       IN call' = IF r.raised
                  THEN [done EXCEPT !.pc = "raised",
                                    !.error = Some("Scope too large, split into sub-tasks")]
                  ELSE [done EXCEPT !.pc = "returned",
                                    !.result = Some([optimized |-> r.optimized,
                                                     warnings |-> r.warnings])]
    /\ UNCHANGED <<cacheVars, ov, req>>

OptimizeNext == Optimize

SpecOptimize == OptimizeInit /\ [][OptimizeNext]_vars

OptimizeDone == call.pc \in {"returned", "raised"}

(***************************************************************************)
(* C14: optimize raises "scope too large" exactly when the final estimate  *)
(* is greater than 1.5 times the adaptive budget; with an estimate above   *)
(* the adaptive budget and at most 1.5 times it, it returns the optimized  *)
(* document with a budget warning; with an estimate of at most the         *)
(* adaptive budget it returns without a budget warning.                    *)
(***************************************************************************)
C14_OverflowRule ==
    OptimizeDone =>
        LET est == call.estimated_tokens[1]
            budget == call.adaptive_budget[1]
        IN /\ call.pc = "raised" <=> 2 * est > 3 * budget
           /\ call.pc = "raised" => call.result = None /\ call.error # None
           /\ (est > budget /\ 2 * est <= 3 * budget) =>
                 /\ call.pc = "returned"
                 /\ "optimization" \in DOMAIN call.result[1].optimized
                 /\ call.result[1].warnings = <<ExceedWarning(est, budget)>>
           /\ est <= budget =>
                 call.pc = "returned" /\ call.result[1].warnings = <<>>

\* The call returned with a warning at an estimate of exactly 1.5 budgets.
C14_Witness ==
    /\ call.pc = "returned"
    /\ call.result[1].warnings # <<>>
    /\ 2 * call.estimated_tokens[1] = 3 * call.adaptive_budget[1]

(***************************************************************************)
(* C15, as first stated: for every positive base budget the adaptive       *)
(* budgets are strictly ordered, scaffold > debug = refactor > explain.    *)
(***************************************************************************)
BudgetOf(intent) == AdaptiveBudget(call.token_budget, intent)

C15_StrictOrder ==
    /\ BudgetOf("scaffold") > BudgetOf("debug")
    /\ BudgetOf("debug") = BudgetOf("refactor")
    /\ BudgetOf("refactor") > BudgetOf("explain")

(***************************************************************************)
(* C15: the adaptive budget is the base budget times the multiplier of the *)
(* intent (scaffold 1.2, devops 1.1, debug 1.0, refactor 1.0, explain 0.9, *)
(* any other 1.0) truncated to an integer. For every base budget of 5 or   *)
(* more, scaffold > debug = refactor > explain; for a base budget of 1 to  *)
(* 4 the truncation leaves scaffold = debug = refactor > explain. For the  *)
(* base budget 4000 and scaffold it is 4800.                               *)
(***************************************************************************)
TenthsOf(intent) ==
    IF intent = "scaffold" THEN 12 ELSE IF intent = "devops" THEN 11
    ELSE IF intent = "explain" THEN 9 ELSE 10

C15_TruncatedOrder ==
    LET b == call.token_budget IN
    /\ \A i \in IntentSamples :
          /\ 10 * BudgetOf(i) <= b * TenthsOf(i)
          /\ b * TenthsOf(i) < 10 * (BudgetOf(i) + 1)
    /\ BudgetOf("debug") = b /\ BudgetOf("refactor") = b /\ BudgetOf("unknown") = b
    /\ BudgetOf("refactor") > BudgetOf("explain")
    /\ b >= 5 => BudgetOf("scaffold") > BudgetOf("debug")
    /\ b < 5 => BudgetOf("scaffold") = BudgetOf("debug")
    /\ b = 4000 => BudgetOf("scaffold") = 4800
    /\ OptimizeDone => call.adaptive_budget = Some(BudgetOf(call.intent))

\* optimize ran for scaffold on the base budget 4 and took 4 as its budget,
\* the budget it takes for debug.
C15_Witness ==
    /\ OptimizeDone
    /\ call.token_budget = 4 /\ call.intent = "scaffold"
    /\ call.adaptive_budget = Some(4)
    /\ BudgetOf("debug") = 4

(***************************************************************************)
(* DialectCompiler.compile on its own: a document, a target model, the     *)
(* retrieved snippets and a token budget are drawn, and the one step is    *)
(* the call.                                                               *)
(***************************************************************************)
\* a contract and nothing else non-empty; constraints and a context that
\* hold nothing a dialect renders
DraftContractOnly ==
    [task |-> <<>>, constraints |-> <<>>, context |-> <<>>, quality_checks |-> <<>>,
     output_contract |-> [file_block_format |-> "strict"]]
DraftUnrendered ==
    [task |-> [description |-> "Explain the cache"],
     constraints |-> [token_budget |-> 4000],
     context |-> [stack |-> <<>>, domain |-> Str("web")],
     output_contract |-> [required_sections |-> <<"Overview">>],
     quality_checks |-> [validation_level |-> "strict"]]

CompileDocs ==
    {<<>>, DraftScaffold, DraftDebug, DraftVague, DraftContractOnly, DraftUnrendered}

TargetSamples == {"claude-3", "gpt-4", "openai-o1", "oss", "llama-3"}

\* no snippet; one; two URLs, one of them twice, with a text above 900
\* characters; a snippet without a URL
KnowledgeSamples ==
    {<<>>,
     KnowledgeFound,
     <<[url |-> "https://docs.example/fastapi", text |-> "Use routers.", score |-> 50],
       [url |-> "https://docs.example/testing", text |-> Repeat("0123456789", 95),
        score |-> 70],
       [url |-> "https://docs.example/fastapi ", text |-> SnippetText, score |-> 90]>>,
     <<[text |-> "Use routers.", score |-> 90]>>}

TokenBudgetSamples == {None, Some(0), Some(150), Some(4000)}

CompileInit ==
    /\ CacheInit /\ max_size = 1 /\ ttl_seconds = 1 /\ enabled = FALSE
    /\ ov = NoValidation
    /\ req = NoRequests
    /\ \E d \in CompileDocs, t \in TargetSamples, k \in KnowledgeSamples,
          b \in TokenBudgetSamples :
          call = [pc |-> "compile", ir |-> d, target_model |-> t,
                  retrieved_knowledge |-> k, token_budget |-> b, result |-> None]

\* DialectCompiler.compile(ir, target_model, retrieved_knowledge, token_budget)
Compile ==
    /\ call.pc = "compile"
    /\ call' = [call EXCEPT !.pc = "compiled",
                            !.result = Some(DialectCompile(call.ir, call.target_model,
                                                call.retrieved_knowledge,
                                                call.token_budget))]
    /\ UNCHANGED <<cacheVars, ov, req>>

CompileNext == Compile

SpecCompile == CompileInit /\ [][CompileNext]_vars

Compiled == call.pc = "compiled"

\* the kinds of the blocks of a prompt, in their order
KindsOf(prompt) == [i \in 1..Len(prompt.blocks) |-> prompt.blocks[i].kind]

SectionOf(ir, sec) == DictGet(ir, sec, <<>>)

(***************************************************************************)
(* C16: for every document with a non-empty output_contract and every      *)
(* target model, the contract block is the first block of the compiled     *)
(* prompt (the first message of the message array, the first text block of *)
(* the two text dialects), whether or not knowledge snippets are injected. *)
(***************************************************************************)
C16_ContractFirst ==
    (Compiled /\ SectionOf(call.ir, "output_contract") # <<>>) =>
        /\ call.result[1].blocks # <<>>
        /\ call.result[1].blocks[1].kind = "contract"

(***************************************************************************)
(* C17: in each dialect the blocks are in the order contract, task,        *)
(* constraints, context/stack, quality requirements, and each of task,     *)
(* constraints, context/stack and quality requirements is rendered when    *)
(* its source section is non-empty and omitted when it is empty.           *)
(***************************************************************************)
BlockIf(ir, sec, kind) == IF SectionOf(ir, sec) # <<>> THEN <<kind>> ELSE <<>>

RenderedKinds == SelectSeq(KindsOf(call.result[1]), LAMBDA k : k \notin {"knowledge", "contract"})

C17_BlocksFollowSections ==
    Compiled =>
        RenderedKinds = BlockIf(call.ir, "task", "task")
                            \o BlockIf(call.ir, "constraints", "constraints")
                            \o BlockIf(call.ir, "context", "context")
                            \o BlockIf(call.ir, "quality_checks", "quality")

(***************************************************************************)
(* C20: whenever execute returns a result with rag_enabled true and a      *)
(* non-empty knowledge_sources_used, the compiled prompt of that result    *)
(* contains the injected "REFERENCE KNOWLEDGE" block, for every token      *)
(* budget and every set of retrieved snippets.                             *)
(***************************************************************************)
PromptContains(prompt, needle) ==
    \E i \in 1..Len(prompt.blocks) : Contains(prompt.blocks[i].text, needle)

C20_KnowledgeInPrompt ==
    \A r \in Reqs :
        (/\ req[r].result # None
         /\ req[r].result[1].rag_enabled
         /\ req[r].result[1].knowledge_sources_used # <<>>)
        => PromptContains(req[r].result[1].compiled_prompt, "REFERENCE KNOWLEDGE")

(***************************************************************************)
(* OutputValidator.validate on its own: a generated output and a document *)
(* are drawn, and the one step is the call: parsing, the three checks, the *)
(* contract verification and the report.                                   *)
(***************************************************************************)
MaxBlocks == 2

BlockSamples ==
    [path : {"main.py", "app.py"}, tag : {None, Some("python")},
     content : {{}, {"secret"}}]

GeneratedOutputs ==
    [sections : {<<>>, <<"Overview">>},
     file_blocks : UNION {[1..n -> BlockSamples] : n \in 0..MaxBlocks}]

ContractSamples ==
    [required_sections : {<<>>, <<"Overview">>},
     required_files : {<<>>, <<"main.py">>, <<"main.py", "util.py">>},
     file_block_format : {"strict", "markdown"}]

LevelSamples ==
    {<<>>} \cup [validation_level : {"strict", "progressive"}, security_level : {"high", "low"}]

OutputInit ==
    /\ CacheInit /\ max_size = 1 /\ ttl_seconds = 1 /\ enabled = FALSE
    /\ req = NoRequests
    /\ call = NoCall
    /\ \E o \in GeneratedOutputs, c \in ContractSamples, q \in LevelSamples :
          ov = [called |-> FALSE, output |-> o,
                ir |-> [output_contract |-> c, quality_checks |-> q]]

\* OutputValidator.validate(output, ir)
ValidateOutput ==
    /\ ~ov.called
    /\ ov' = [ov EXCEPT !.called = TRUE] @@
             [report |-> OutputValidatorValidate(ov.output, ov.ir)]
    /\ UNCHANGED <<cacheVars, req, call>>

OutputNext == ValidateOutput

SpecOutput == OutputInit /\ [][OutputNext]_vars

\* the paths of the file blocks of the output
ProducedFiles == {ov.output.file_blocks[i].path : i \in 1..Len(ov.output.file_blocks)}

RequiredFiles == ov.ir.output_contract.required_files

(***************************************************************************)
(* C18: for every output that does not produce a file of                   *)
(* output_contract.required_files, under validation_level "strict", the    *)
(* contract summary lists the file as missing with compliant false and the *)
(* status is "blocked", also when no finding has the severity error.       *)
(***************************************************************************)
C18_MissingFileBlocks ==
    ov.called =>
        \A i \in 1..Len(RequiredFiles) :
            RequiredFiles[i] \notin ProducedFiles =>
                /\ Occurs(RequiredFiles[i], ov.report.contract_compliance.required_files_missing)
                /\ ~ov.report.contract_compliance.compliant
                /\ LevelOf(ov.ir, "validation_level", "progressive") = "strict"
                      => ov.report.status = "blocked"

\* A strict document asks for main.py, the output holds only app.py and no
\* check finds an error: the report is blocked.
C18_Witness ==
    /\ ov.called
    /\ RequiredFiles = <<"main.py">>
    /\ ProducedFiles = {"app.py"}
    /\ ov.ir.output_contract.required_sections = <<>>
    /\ LevelOf(ov.ir, "validation_level", "progressive") = "strict"
    /\ ov.report.summary.errors = 0
    /\ ov.report.contract_compliance.required_files_missing = <<"main.py">>
    /\ ov.report.status = "blocked"

(***************************************************************************)
(* C19: with file_block_format "strict", an output holding a file block    *)
(* whose fence has no language tag is reported as non-compliant            *)
(* (file_block_format_correct false, compliant false), and with            *)
(* validation_level "strict" its status is "blocked".                      *)
(***************************************************************************)
C19_UntaggedBlockRejected ==
    (/\ ov.called
     /\ ov.ir.output_contract.file_block_format = "strict"
     /\ \E i \in 1..Len(ov.output.file_blocks) : ov.output.file_blocks[i].tag = None)
    => /\ ~ov.report.contract_compliance.file_block_format_correct
       /\ ~ov.report.contract_compliance.compliant
       /\ LevelOf(ov.ir, "validation_level", "progressive") = "strict"
             => ov.report.status = "blocked"

(***************************************************************************)
(* IRLinter.lint on its own: a document is drawn, some of them with a      *)
(* value of the wrong type where a rule expects a dict, and the one step   *)
(* is the call.                                                            *)
(***************************************************************************)
WithOpt(d, k, opt) == IF opt = None THEN d ELSE DictPut(d, k, opt[1])

LintTaskSamples == {None, Some([description |-> "build an api"])}

LintConstraintSamples ==
    {None, Some(<<>>), Some([must_avoid |-> <<>>]),
     Some([must_avoid |-> <<>>, token_budget |-> 50]),
     Some([must_avoid |-> <<>>, token_budget |-> 4000]),
     Some([token_budget |-> 200000]),
     Some(Null), Some(Str("must_avoid")), Some(List(<<"must_avoid">>))}

LintContractSamples ==
    {None, Some(<<>>), Some([required_sections |-> <<"Overview">>]),
     Some([required_sections |-> <<"Overview">>, file_block_format |-> "strict"]),
     Some(Null), Some(Str("required_sections only")),
     Some(List(<<"required_sections", "file_block_format">>))}

LintDocs ==
    {Null, Str("meta and task"), List(<<"meta", "task", "context">>)}
    \cup {WithOpt(WithOpt(WithOpt([meta |-> [intent |-> "scaffold"], context |-> <<>>,
                                    quality_checks |-> <<>>],
                                   "task", t), "constraints", c), "output_contract", o) :
            t \in LintTaskSamples, c \in LintConstraintSamples, o \in LintContractSamples}

LintInit ==
    /\ CacheInit /\ max_size = 1 /\ ttl_seconds = 1 /\ enabled = FALSE
    /\ ov = NoValidation
    /\ req = NoRequests
    /\ \E d \in LintDocs : call = [pc |-> "lint", ir_data |-> d, result |-> None]

\* IRLinter.lint(ir_data)
LintDocument ==
    /\ call.pc = "lint"
    /\ call' = [call EXCEPT !.pc = "linted", !.result = Some(Lint(call.ir_data))]
    /\ UNCHANGED <<cacheVars, ov, req>>

LintNext == LintDocument

SpecLint == LintInit /\ [][LintNext]_vars

\* the value of "rule" in the findings a rule itself reports
RuleLabels ==
    <<"required_fields", "constraints_validity", "output_contract_completeness",
      "token_budget_reasonableness">>

\* the rule a finding comes from
RuleIndex(f) ==
    CHOOSE i \in 1..Len(RULES) : f.rule \in {RULES[i], RuleLabels[i]}

(***************************************************************************)
(* C21: lint applies every rule of its list, in order: a rule that throws  *)
(* gives exactly one warning finding that names the rule, every other rule *)
(* contributes the findings it returns, and the validity flag is true      *)
(* exactly when no finding has the severity error.                         *)
(***************************************************************************)
C21_RulesIsolated ==
    call.pc = "linted" =>
        LET ir == call.ir_data
            findings == call.result[1].findings
            From(name) == SelectSeq(findings, LAMBDA f : f.rule = name)
        IN /\ \A i \in 1..Len(RULES) :
                 IF RuleRaises(i, ir)
                 THEN /\ From(RULES[i]) = <<LintFinding("warning", RULES[i],
                                                        "Rule check failed")>>
                      /\ From(RuleLabels[i]) = <<>>
                 ELSE /\ From(RULES[i]) = <<>>
                      /\ From(RuleLabels[i]) = RuleFindings(i, ir)
           /\ \A j \in 1..Len(findings) :
                 \E i \in 1..Len(RULES) : findings[j].rule \in {RULES[i], RuleLabels[i]}
           /\ \A j, k \in 1..Len(findings) :
                 j < k => RuleIndex(findings[j]) <= RuleIndex(findings[k])
           /\ call.result[1].is_valid
                 <=> \A j \in 1..Len(findings) : findings[j].severity # "error"

\* The second rule raised on a list where it expects a dict, and the rules
\* before and after it reported errors.
C21_Witness ==
    /\ call.pc = "linted"
    /\ IsDict(call.ir_data)
    /\ RuleRaises(2, call.ir_data)
    /\ ~RuleRaises(3, call.ir_data)
    /\ LET findings == call.result[1].findings IN
       \E a, b, c \in 1..Len(findings) :
           /\ a < b /\ b < c
           /\ findings[a].rule = "required_fields"
           /\ findings[b] = RuleFailed(2)
           /\ findings[c].rule = "output_contract_completeness"
    /\ ~call.result[1].is_valid

(***************************************************************************)
(* IntentRouter.route on its own: a text and an explicit intent are drawn, *)
(* and the one step is the call.                                           *)
(***************************************************************************)
RouteTexts ==
    {"Create a new FastAPI project", "Fix this error: AttributeError",
     "random text without intent markers", "some text", "",
     "DEBUG THIS", "debug the docker deploy", "explain how to refactor",
     "deploy and debug", "fix the\nerror", "recreate my projects",
     "document what docker containers do in production",
     "understand the error log and fix the error"}

ExplicitSamples ==
    {None, Some(""), Some("Debug"), Some("unknown")}
    \cup {Some(INTENTS[i]) : i \in 1..Len(INTENTS)}

RouteInit ==
    /\ CacheInit /\ max_size = 1 /\ ttl_seconds = 1 /\ enabled = FALSE
    /\ ov = NoValidation
    /\ req = NoRequests
    /\ \E t \in RouteTexts, x \in ExplicitSamples :
          call = [pc |-> "route", input_text |-> t, explicit_intent |-> x, result |-> None]

\* IntentRouter.route(input_text, explicit_intent)
RouteCall ==
    /\ call.pc = "route"
    /\ call' = [call EXCEPT !.pc = "routed",
                            !.result = Some(Route(call.input_text, call.explicit_intent))]
    /\ UNCHANGED <<cacheVars, ov, req>>

RouteNext == RouteCall

SpecRoute == RouteInit /\ [][RouteNext]_vars

IntentSet == {INTENTS[i] : i \in 1..Len(INTENTS)}

\* the count of the patterns of INTENTS[i] that match the lowercased text
ScoreAt(i) == IntentScore(INTENTS[i], Lower(call.input_text))

(***************************************************************************)
(* C22: route returns the explicit intent whenever it is one of the five   *)
(* intents; otherwise the intent with the highest count of patterns that   *)
(* match the lowercased text, the earliest of the intent list on a tie,    *)
(* and scaffold when no pattern matches; what it returns is always one of  *)
(* the five intents.                                                       *)
(***************************************************************************)
C22_RouteRule ==
    call.pc = "routed" =>
        LET result == call.result[1]
            explicit == call.explicit_intent
        IN /\ result \in IntentSet
           /\ (explicit # None /\ explicit[1] \in IntentSet) => result = explicit[1]
           /\ ~(explicit # None /\ explicit[1] \in IntentSet) =>
                 IF \A i \in 1..Len(INTENTS) : ScoreAt(i) = 0
                 THEN result = "scaffold"
                 ELSE \E i \in 1..Len(INTENTS) :
                        /\ result = INTENTS[i]
                        /\ \A j \in 1..Len(INTENTS) : ScoreAt(j) <= ScoreAt(i)
                        /\ \A j \in 1..(i - 1) : ScoreAt(j) < ScoreAt(i)

\* An explicit intent outside the list was ignored, and of two intents with
\* the same highest count the earlier one was returned.
C22_Witness ==
    /\ call.pc = "routed"
    /\ call.explicit_intent = Some("unknown")
    /\ \E i, j \in 1..Len(INTENTS) :
          /\ i < j
          /\ ScoreAt(i) = ScoreAt(j) /\ ScoreAt(i) > 1
          /\ \A k \in 1..Len(INTENTS) : ScoreAt(k) <= ScoreAt(i)
          /\ call.result[1] = INTENTS[i]

(***************************************************************************)
(* Stages 4 and 5 on their own: the linter and the optimizer run in two    *)
(* threads on the one validated document.  The linter applies its rules    *)
(* one at a time; the optimizer applies its strategies, which write into   *)
(* the nested values it shares with the document, and then returns.        *)
(* validated and reads are history: the document as the validator          *)
(* produced it, and the document each rule of the linter was applied to.   *)
(***************************************************************************)
DraftTwoLists ==
    [meta |-> [intent |-> "explain", schema_version |-> "2.1.0",
               compiler_version |-> "0.1.0"],
     task |-> [description |-> "explain the build"],
     context |-> [stack |-> [tools |-> List(<<"pytest", "ruff", "pytest">>),
                             frameworks |-> List(<<"fastapi", "fastapi">>)]],
     constraints |-> [must_avoid |-> <<>>, token_budget |-> 200000],
     output_contract |-> [required_sections |-> <<"Overview">>,
                          file_block_format |-> "markdown"],
     quality_checks |-> <<>>]

ParallelDrafts == {DraftScaffold, DraftDebug, DraftTwoLists, DraftContractOnly}

ValidatedDocs ==
    {IRValidatorValidate(d, 0).ir : d \in {x \in ParallelDrafts : IRValidatorValidate(x, 0).is_valid}}

ParallelInit ==
    /\ CacheInit /\ max_size = 1 /\ ttl_seconds = 1 /\ enabled = FALSE
    /\ ov = NoValidation
    /\ req = NoRequests
    /\ \E d \in ValidatedDocs, b \in {50, 150, 4000}, i \in {"scaffold", "explain"} :
          call = [pc |-> "parallel", ir |-> d, validated |-> d, token_budget |-> b,
                  intent |-> i, rule |-> 1, findings |-> <<>>, reads |-> <<>>,
                  lint |-> None, strategies |-> FALSE, opt |-> None]

\* lint, one pass of its loop
LintRule ==
    /\ call.pc = "parallel"
    /\ call.lint = None
    /\ call.rule <= Len(RULES)
    /\ call' = [call EXCEPT !.findings = @ \o RunRule(call.rule, call.ir),
                            !.reads = Append(@, call.ir),
                            !.rule = @ + 1]
    /\ UNCHANGED <<cacheVars, ov, req>>

\* lint, after its loop
LintReturns ==
    /\ call.pc = "parallel"
    /\ call.lint = None
    /\ call.rule > Len(RULES)
    /\ call' = [call EXCEPT !.lint =
                  Some([is_valid |-> \A i \in 1..Len(call.findings) :
                                        call.findings[i].severity # "error",
                        findings |-> call.findings])]
    /\ UNCHANGED <<cacheVars, ov, req>>

\* optimize, the copy and the loop over the strategies
OptimizerStrategies ==
    /\ call.pc = "parallel"
    /\ ~call.strategies
    /\ call' = [call EXCEPT
                  !.strategies = TRUE,
                  !.ir = AfterOptimize(call.ir,
                            TokenOptimizerOptimize(call.ir, call.token_budget,
                                                   call.intent).optimized)]
    /\ UNCHANGED <<cacheVars, ov, req>>

\* optimize, from the fingerprint to its return or its ValueError
OptimizerReturns ==
    /\ call.pc = "parallel"
    /\ call.strategies
    /\ call.opt = None
    /\ call' = [call EXCEPT !.opt = Some(TokenOptimizerOptimize(call.ir, call.token_budget,
                                                                call.intent))]
    /\ UNCHANGED <<cacheVars, ov, req>>

\* execute, after both awaits
ParallelJoin ==
    /\ call.pc = "parallel"
    /\ BothDone(call.lint, call.opt)
    /\ call' = [call EXCEPT !.pc = IF call.opt[1].raised THEN "raised" ELSE "joined"]
    /\ UNCHANGED <<cacheVars, ov, req>>

ParallelNext ==
    \/ LintRule
    \/ LintReturns
    \/ OptimizerStrategies
    \/ OptimizerReturns
    \/ ParallelJoin

SpecParallel == ParallelInit /\ [][ParallelNext]_vars

(***************************************************************************)
(* C23: lint and optimize have no data dependency: in every interleaving   *)
(* of the two tasks, the two sequential orders included, the lint verdict  *)
(* and findings are those of the linter on the validated document, and the *)
(* optimized document and the optimizer's warnings are those of the        *)
(* optimizer on the validated document.                                    *)
(***************************************************************************)
C23_OrderIndependent ==
    /\ call.lint # None => call.lint[1] = Lint(call.validated)
    /\ call.opt # None =>
          call.opt[1] = TokenOptimizerOptimize(call.validated, call.token_budget,
                                               call.intent)

\* Both tasks are done, and the strategies rewrote the shared lists between
\* two rules of the linter.
C23_Witness ==
    /\ call.pc = "joined"
    /\ call.ir # call.validated
    /\ \E i \in 1..(Len(call.reads) - 1) :
          call.reads[i] = call.validated /\ call.reads[i + 1] # call.validated

(***************************************************************************)
(* C24: optimize only reads the validated document: the document of a      *)
(* result that execute built is equal, in every nested field, to what the  *)
(* validator produced, and the de-duplicated context.stack lists and the   *)
(* optimization metadata are in the optimized document only.               *)
(***************************************************************************)
ValidatedOf(rq) == IRValidatorValidate(DraftOf(rq.args[1].input_text), 0).ir

C24_ValidatedUntouched ==
    \A r \in Reqs :
        (req[r].pc = "done" /\ ~req[r].hit) =>
            /\ req[r].result[1].ir_json = ValidatedOf(req[r])
            /\ "optimization" \notin DOMAIN req[r].result[1].ir_json
            /\ "optimization" \in DOMAIN req[r].result[1].optimized_ir

(***************************************************************************)
(* execute called twice with one text and one target model under two token *)
(* budgets that both fit: the two calls derive the same cache key.         *)
(***************************************************************************)
SameKeyArgs == {Args(TextFix, "gpt-4", 150), Args(TextFix, "gpt-4", 4000)}

SameKeyNext ==
    \/ Tick
    \/ \E r \in Reqs, a \in SameKeyArgs : Start(r, a)
    \/ \E r \in Reqs : BuildFails(r)
    \/ \E r \in Reqs, ok \in BOOLEAN, fault \in BOOLEAN : Built(r, ok, fault)
    \/ \E r \in Reqs : RunLinter(r)
    \/ \E r \in Reqs : RunOptimizer(r)
    \/ \E r \in Reqs : Join(r)
    \/ \E r \in Reqs : GenerateFails(r)
    \/ \E r \in Reqs, o \in OutputSamples, fault \in BOOLEAN : Generated(r, o, fault)

SpecSameKey == PipelineInit /\ [][SameKeyNext]_vars

\* the request built a result and stored it
Stored(r) == req[r].pc = "done" /\ ~req[r].hit /\ req[r].storedAt # None

\* a result without its provenance
WithoutProvenance(result) == [k \in DOMAIN result \ {"provenance"} |-> result[k]]

(***************************************************************************)
(* C25: two results that execute stores under the same cache key are equal *)
(* in every field but the provenance, whatever the other arguments of the  *)
(* two calls; stated here for two calls whose generator returned the same  *)
(* output and whose retrieval returned the same snippets.                  *)
(***************************************************************************)
C25_SameKeySameResult ==
    \A r, q \in Reqs :
        (/\ Stored(r) /\ Stored(q)
         /\ req[r].key = req[q].key
         /\ req[r].output = req[q].output
         /\ req[r].knowledge = req[q].knowledge)
        => WithoutProvenance(req[r].result[1]) = WithoutProvenance(req[q].result[1])

(***************************************************************************)
(* The two tiers over a longer time: L1 TTLs below the L2 TTL, each key    *)
(* set at most once, and time running past the sum of the two TTLs.        *)
(* call.set_at is history: per key, the time of its CacheManager.set.      *)
(***************************************************************************)
MaxLongTtl == 4
MaxLateTime == 6

ExpiryInit ==
    /\ now = 0
    /\ max_size \in 1..MaxL1Size
    /\ ttl_seconds \in 1..(MaxLongTtl - 2)
    /\ l2_ttl = MaxLongTtl
    /\ enabled \in BOOLEAN
    /\ l1 = <<>>
    /\ l2 = {}
    /\ lastOp = NoOp
    /\ used = <<>>
    /\ written = {}
    /\ ov = NoValidation
    /\ req = NoRequests
    /\ call = [set_at |-> <<>>]

\* Time passes.
LateTick ==
    /\ now < MaxLateTime
    /\ now' = now + 1
    /\ lastOp' = NoOp
    /\ written' = {w \in written : now + 1 <= w.at + ttl_seconds}
    /\ UNCHANGED <<max_size, ttl_seconds, l2_ttl, enabled, l1, l2, used, ov, req, call>>

\* A caller invokes CacheManager.set(key, value) on a key not set before.
SetOnce(key, value, fault) ==
    LET r == CacheManagerSet(l1, l2, enabled, key, value, now, ttl_seconds, l2_ttl, max_size, fault)
        gone == KeysOf(l1) \ KeysOf(r.l1)
    IN /\ key \notin DOMAIN call.set_at
       /\ fault => enabled
       /\ l1' = r.l1
       /\ l2' = r.l2
       /\ lastOp' = [NoOp EXCEPT !.op = "set", !.key = Some(key), !.value = Some(value),
                        !.raised = r.raised, !.fault = fault, !.evicted = gone]
       /\ used' = KeepKeys(Touch(used, key), KeysOf(r.l1))
       /\ written' = NoteSet(written, key, value, now, gone)
       /\ call' = [call EXCEPT !.set_at = DictPut(@, key, now)]
       /\ UNCHANGED <<now, max_size, ttl_seconds, l2_ttl, enabled, ov, req>>

ExpiryNext ==
    \/ LateTick
    \/ \E key \in TierKeys, fault \in BOOLEAN : Get(key, fault)
    \/ \E key \in TierKeys, fault \in BOOLEAN : SetOnce(key, "v1", fault)
    \/ Stats

SpecExpiry == ExpiryInit /\ [][ExpiryNext]_vars

\* the last operation was a get that returned the value of a key set at time t
ReturnedAt(t) ==
    /\ lastOp.op = "get"
    /\ lastOp.ret # None
    /\ lastOp.key[1] \in DOMAIN call.set_at
    /\ call.set_at[lastOp.key[1]] = t

\* C26 as stated: a value written once by CacheManager.set at time t is not
\* returned by CacheManager.get later than t plus the L2 TTL, whatever gets
\* came in between.
C26_GoneAfterL2Ttl ==
    \A t \in 0..MaxLateTime : ReturnedAt(t) => now <= t + l2_ttl

\* C26 amended: a value written once by CacheManager.set at time t is not
\* returned by CacheManager.get later than t plus the L2 TTL plus the L1 TTL:
\* a get that hits L2 writes the value into L1 with a new L1 TTL.
C26_GoneAfterBothTtls ==
    \A t \in 0..MaxLateTime : ReturnedAt(t) => now <= t + l2_ttl + ttl_seconds

\* A get returned a value after the L2 TTL of its set had elapsed, with no
\* other key ever set: only gets came in between.
C26_Witness ==
    /\ \E t \in 0..MaxLateTime : ReturnedAt(t) /\ now > t + l2_ttl
    /\ Cardinality(DOMAIN call.set_at) = 1

(***************************************************************************)
(* C27 as stated: L1Cache.set never evicts an entry whose TTL has not       *)
(* elapsed while an entry whose TTL has elapsed is still stored in L1.      *)
(***************************************************************************)
C27_ExpiredEvictedFirst ==
    [][lastOp'.op = "set" =>
          \A k \in lastOp'.evicted :
              now <= EntryOf(l1, k).expiry =>
                  \A i \in 1..Len(l1) : now <= l1[i].expiry]_vars

\* x was accessed before y, by the history of accesses
UsedBefore(x, y) ==
    \E i, j \in 1..Len(used) : i < j /\ used[i] = x /\ used[j] = y

(***************************************************************************)
(* C27 amended: L1Cache.set evicts by recency alone: when it evicts an      *)
(* entry whose TTL has not elapsed while entries whose TTL has elapsed are  *)
(* still stored, each of those was accessed, by a get or a set, after the   *)
(* evicted entry.                                                           *)
(***************************************************************************)
C27_EvictionByRecencyOnly ==
    [][lastOp'.op = "set" =>
          \A k \in lastOp'.evicted :
              now <= EntryOf(l1, k).expiry =>
                  \A i \in 1..Len(l1) :
                      now > l1[i].expiry => UsedBefore(k, l1[i].key)]_vars

\* A set evicted an entry whose TTL had not elapsed, and L1 still holds an
\* entry whose TTL has elapsed.
C27_Witness ==
    /\ lastOp.op = "set"
    /\ \E k \in lastOp.evicted : IsWritten(k)
    /\ \E i \in 1..Len(l1) : now > l1[i].expiry

(***************************************************************************)
(* C28: the repair pass is idempotent: applied to a repaired document it   *)
(* changes nothing.  So a document that is still invalid after the first   *)
(* repair pass is the document every later attempt checks, with the same   *)
(* errors, and validate returns failure for every max_retries >= 1.        *)
(***************************************************************************)
C28_RepairIdempotent ==
    /\ call.repairs >= 1 => AttemptRepair(call.ir_data) = call.ir_data
    /\ (ValidateReturned /\ call.max_retries >= 1 /\ SchemaErrors(call.input) # {}) =>
          LET once == AttemptRepair(call.input)
              result == call.result[1]
          IN /\ result.ir = once
             /\ result.is_valid <=> SchemaErrors(once) = {}
             /\ ~result.is_valid =>
                   /\ result.errors = Some(SchemaErrors(once))
                   /\ call.repairs = call.max_retries

\* validate failed after three repair passes on a document that the first
\* pass changed.
C28_Witness ==
    /\ ValidateReturned
    /\ ~call.result[1].is_valid
    /\ call.repairs = MaxRetries
    /\ call.result[1].ir # call.input

(***************************************************************************)
(* execute called with the two levels it accepts as arguments: the same    *)
(* text, model and budget under high/strict and under low/progressive.     *)
(***************************************************************************)
WithLevels(a, security_level, validation_mode) ==
    [a EXCEPT !.security_level = security_level, !.validation_mode = validation_mode]

LevelArgs ==
    {Args(TextApi, "oss", 4000),
     WithLevels(Args(TextApi, "oss", 4000), "low", "progressive")}

LevelsNext ==
    \/ Tick
    \/ \E r \in Reqs, a \in LevelArgs : Start(r, a)
    \/ \E r \in Reqs : BuildFails(r)
    \/ \E r \in Reqs, ok \in BOOLEAN, fault \in BOOLEAN : Built(r, ok, fault)
    \/ \E r \in Reqs : RunLinter(r)
    \/ \E r \in Reqs : RunOptimizer(r)
    \/ \E r \in Reqs : Join(r)
    \/ \E r \in Reqs : GenerateFails(r)
    \/ \E r \in Reqs, o \in OutputSamples, fault \in BOOLEAN : Generated(r, o, fault)

SpecLevels == PipelineInit /\ [][LevelsNext]_vars

\* the arguments of a request without its security_level and validation_mode
OtherArgs(rq) == WithLevels(rq.args[1], "", "")

(***************************************************************************)
(* C29: the security_level and validation_mode arguments of execute do not *)
(* influence the result: two executions that differ in these two arguments *)
(* only, with the same draft and the same generated output, return the     *)
(* same status and the same validation report; the levels of the status    *)
(* rules are those of the document's quality_checks, low and progressive   *)
(* when it has none.                                                       *)
(***************************************************************************)
C29_LevelArgsIgnored ==
    \A r, q \in Reqs :
        (/\ Stored(r) /\ Stored(q)
         /\ OtherArgs(req[r]) = OtherArgs(req[q])
         /\ req[r].output = req[q].output)
        => /\ req[r].result[1].status = req[q].result[1].status
           /\ req[r].result[1].validation_report = req[q].result[1].validation_report
           /\ req[r].result[1].status =
                 DetermineStatus(req[r].report[1].findings,
                                 req[r].report[1].summary.contract_compliant,
                                 req[r].opt[1].optimized)

\* Two executions that differ in the two arguments only both built a result
\* from the same output, and the one called with low and progressive was
\* blocked by the levels of its document.
C29_Witness ==
    \E r, q \in Reqs :
        /\ Stored(r) /\ Stored(q)
        /\ OtherArgs(req[r]) = OtherArgs(req[q])
        /\ req[r].args # req[q].args
        /\ req[r].output = req[q].output
        /\ req[r].args[1].security_level = "low"
        /\ req[r].args[1].validation_mode = "progressive"
        /\ req[r].result[1].status = "blocked"

(***************************************************************************)
(* Prompt generation jobs: execute_prompt_generation, the run_job of       *)
(* POST /generate and GET /prompt/{job_id}.  A result is a dict object: L1 *)
(* holds a reference to the object it was given, the remote tier holds the *)
(* json text of the object as it was when written.  heap maps the objects  *)
(* to their contents.                                                      *)
(***************************************************************************)
MaxJobs == 2
DefaultL1MaxSize == 100

PromptInputs == {"add login", "fix bug"}
JobIds == <<"j1", "j2", "j3", "j4">>

Ref(n) == [ref |-> n]
Dumps(value) == [json |-> value]
Loads(data) == data.json

GenerationKey(input_text) == "prompt_generation:" \o input_text
JobKey(job_id) == "prompt_job:" \o job_id

\* the result dict built at the end of execute_prompt_generation
PromptResult(job_id, input_text) ==
    [job_id |-> job_id,
     template_name |-> "universal_cursor_prompt",
     prompt |-> "# Task\n" \o input_text]

\* CacheManager.get on objects: an L1 hit returns the stored object itself;
\* an L2 hit returns a new object made by json.loads and promotes it.
ObjectGet(c, store, on, heap, key, t, ttl, maxsz, fault) ==
    LET g1 == L1Get(c, key, t) IN
    IF g1.ret # None
    THEN [l1 |-> g1.cache, heap |-> heap, ret |-> Some(g1.ret[1].ref)]
    ELSE LET g2 == L2Get(store, on, key, t, fault) IN
         IF g2.ret # None
         THEN [l1 |-> L1Set(g1.cache, key, Ref(Len(heap) + 1), t, ttl, maxsz),
               heap |-> Append(heap, Loads(g2.ret[1])),
               ret |-> Some(Len(heap) + 1)]
         ELSE [l1 |-> g1.cache, heap |-> heap, ret |-> None]

\* CacheManager.set on objects: L1 keeps the object, L2 its json text.
ObjectSet(c, store, on, heap, key, n, t, ttl, ttl2, maxsz, fault) ==
    [l1 |-> L1Set(c, key, Ref(n), t, ttl, maxsz),
     l2 |-> L2Set(store, on, key, Dumps(heap[n]), t, ttl2, fault).store,
     heap |-> heap]

JobsInit ==
    /\ now = 0
    /\ max_size = DefaultL1MaxSize
    /\ ttl_seconds \in 1..MaxL1Ttl
    /\ l2_ttl = MaxL2Ttl
    /\ enabled \in BOOLEAN
    /\ l1 = <<>>
    /\ l2 = {}
    /\ lastOp = NoOp
    /\ used = <<>>
    /\ written = {}
    /\ ov = NoValidation
    /\ req = NoRequests
    /\ call = [heap |-> <<>>, issued |-> 0, pending |-> {}, stored |-> <<>>, got |-> None]

\* run_job after execute_prompt_generation returned object n:
\* cache_manager.set(f"prompt_job:{result['job_id']}", result)
RunJobStores(c, store, heap, n, fault) ==
    ObjectSet(c, store, enabled, heap, JobKey(heap[n].job_id), n,
              now, ttl_seconds, l2_ttl, max_size, fault)

\* POST /generate up to the first await after the cache lookup: a new job id,
\* the lookup, and on a hit the whole rest of run_job.
JobStart(input_text, fault) ==
    LET job_id == JobIds[call.issued + 1]
        g == ObjectGet(l1, l2, enabled, call.heap, GenerationKey(input_text),
                       now, ttl_seconds, max_size, fault)
        n == g.ret[1]
        heap1 == [g.heap EXCEPT ![n].job_id = job_id]
        s == RunJobStores(g.l1, l2, heap1, n, fault)
    IN /\ call.issued < MaxJobs
       /\ fault => enabled
       /\ IF g.ret # None
          THEN /\ l1' = s.l1
               /\ l2' = s.l2
               /\ call' = [call EXCEPT !.issued = @ + 1, !.heap = s.heap, !.got = None,
                                       !.stored = Append(@, [job_id |-> heap1[n].job_id,
                                                             hit |-> TRUE,
                                                             result |-> heap1[n]])]
          ELSE /\ l1' = g.l1
               /\ l2' = l2
               /\ call' = [call EXCEPT !.issued = @ + 1, !.heap = g.heap, !.got = None,
                                       !.pending = @ \cup {[job_id |-> job_id,
                                                            input_text |-> input_text]}]
       /\ UNCHANGED <<now, max_size, ttl_seconds, l2_ttl, enabled, lastOp, used, written, ov, req>>

\* The rest of a job that missed: the result is built, stored under the
\* request's key, returned, and stored under the job's key.
JobFinish(p, fault) ==
    LET n == Len(call.heap) + 1
        heap1 == Append(call.heap, PromptResult(p.job_id, p.input_text))
        s1 == ObjectSet(l1, l2, enabled, heap1, GenerationKey(p.input_text), n,
                        now, ttl_seconds, l2_ttl, max_size, fault)
        s2 == RunJobStores(s1.l1, s1.l2, s1.heap, n, fault)
    IN /\ p \in call.pending
       /\ fault => enabled
       /\ l1' = s2.l1
       /\ l2' = s2.l2
       /\ call' = [call EXCEPT !.pending = @ \ {p}, !.heap = s2.heap, !.got = None,
                               !.stored = Append(@, [job_id |-> p.job_id,
                                                     hit |-> FALSE,
                                                     result |-> heap1[n]])]
       /\ UNCHANGED <<now, max_size, ttl_seconds, l2_ttl, enabled, lastOp, used, written, ov, req>>

\* GET /prompt/{job_id}: the item under prompt_job:{job_id}, or 404.
GetPrompt(job_id, fault) ==
    LET g == ObjectGet(l1, l2, enabled, call.heap, JobKey(job_id),
                       now, ttl_seconds, max_size, fault)
    IN /\ fault => enabled
       /\ l1' = g.l1
       /\ call' = [call EXCEPT !.heap = g.heap,
                               !.got = Some([job_id |-> job_id,
                                             item |-> IF g.ret = None THEN None
                                                      ELSE Some(g.heap[g.ret[1]])])]
       /\ UNCHANGED <<now, max_size, ttl_seconds, l2_ttl, enabled, l2, lastOp, used, written, ov, req>>

JobsNext ==
    \/ Tick
    \/ \E input_text \in PromptInputs, fault \in BOOLEAN : JobStart(input_text, fault)
    \/ \E p \in call.pending, fault \in BOOLEAN : JobFinish(p, fault)
    \/ \E i \in 1..MaxJobs, fault \in BOOLEAN : GetPrompt(JobIds[i], fault)

SpecJobs == JobsInit /\ [][JobsNext]_vars

\* the result that run_job stored for the job
StoredFor(job_id) ==
    (CHOOSE s \in {call.stored[i] : i \in 1..Len(call.stored)} : s.job_id = job_id).result

(***************************************************************************)
(* C30: a value stored in the cache is never modified after it was stored: *)
(* for any sequence of prompt-generation requests, repeats that hit the    *)
(* cache included, the job record retrieved under prompt_job:J has job_id  *)
(* J and equals the result that was stored for job J.                      *)
(***************************************************************************)
C30_JobRecordIntact ==
    (call.got # None /\ call.got[1].item # None)
    => /\ call.got[1].item[1].job_id = call.got[1].job_id
       /\ call.got[1].item[1] = StoredFor(call.got[1].job_id)

====
